---------------------------- MODULE Spec2Model ----------------------------
(***************************************************************************)
(* Model of the chat action of app/routes/api.chat.ts: one request, from   *)
(* the parsed request body to the HTTP response and the close of the       *)
(* client-facing stream.  An action is one run-to-completion piece of the  *)
(* handler, i.e. the code between two suspension points (await).           *)
(***************************************************************************)
EXTENDS Integers, Sequences, FiniteSets, TLC

(***************************************************************************)
(* Bounds of the model.                                                    *)
(***************************************************************************)
\* generation calls (first call + continuations) explored per request
MaxSegments == 2
\* the same, for the specification of the continuation chain alone
MaxChainSegments == 4
\* the same, for the specification with merge pumps that lag behind
MaxStreamSegments == 2
\* content chunks one generation segment may produce
MaxChunks == 1
\* stalls the monitor's timer may detect during one request
MaxStalls == 1
\* fragments the message of an error is made of
MaxFragments == 2
\* tool calls the model may report at the end of a generation step
MaxToolCalls == 2
\* requests to the models loader
MaxLoads == 3
\* tokens of one kind a sub-call may report
MaxTokens == 1
\* tokens of the path that follows the work directory
MaxPathLen == 3
\* calls of the client's sendMessage
MaxCalls == 2

(***************************************************************************)
(* Program constants.                                                      *)
(***************************************************************************)
\* ~/lib/.server/llm/constants (imported at api.chat.ts:3)
MAX_RESPONSE_SEGMENTS == 2
\* ~/utils/constants, the defaults extractPropertiesFromMessage falls back to
DEFAULT_MODEL == "defaultModel"
DEFAULT_PROVIDER == "defaultProvider"
\* ~/lib/common/prompts/prompts (imported at api.chat.ts:4)
CONTINUE_PROMPT == "CONTINUE_PROMPT"
\* ~/utils/constants (imported at api.chat.ts:11); a path is the sequence of
\* its segments, each with its leading separator
WORK_DIR == <<"/", "home", "/", "project">>

VARIABLES
    messages,           \* request body: the conversation (UI messages)
    files,              \* request body: the file map (its set of paths)
    contextOptimization,\* request body: the optimization flag
    pc,                 \* position of execute()
    processedMessages,  \* result of mcpService.processToolInvocations
    messageSliceId,
    summary,            \* result of createSummary ("" = undefined)
    filteredFiles,      \* result of selectContext
    progressCounter,    \* api.chat.ts:81
    cumulativeUsage,    \* api.chat.ts:76
    switches,           \* stream.switches of the SwitchableStream, api.chat.ts:74
    monitor,            \* state of the StreamRecoveryManager, api.chat.ts:43
    segs,               \* the generation segments (streamText calls), in call order
    out,                \* the events enqueued on the client-facing stream, in order
    closed,             \* the client-facing stream has been closed
    reported,           \* history: what the sub-calls reported, summed per field
    response,           \* the HTTP response chatAction returned (<<>> = none yet)
    thrown,             \* the error caught at api.chat.ts:501 (<<>> = none)
    other,              \* a second chat request, processed at the same time
    cachedProviders,    \* part_000:13 (<<>> = null)
    cachedDefaultProvider, \* part_000:14 (<<>> = null)
    llmManager,         \* the LLM manager: its providers, its default provider
    loaded,             \* history: the responses of the models loader, in order
    filePath,           \* the argument of extractRelativePath
    result,             \* its result (<<>> = not called yet)
    client              \* the chat component of the browser, part_003:142

vars == <<messages, files, contextOptimization, pc, processedMessages,
          messageSliceId, summary, filteredFiles, progressCounter,
          cumulativeUsage, switches, monitor, segs, out, closed, reported,
          response, thrown, other, cachedProviders, cachedDefaultProvider,
          llmManager, loaded, filePath, result, client>>

\* the state outside the chat request
outerVars == <<other, cachedProviders, cachedDefaultProvider, llmManager,
               loaded, filePath, result, client>>

(***************************************************************************)
(* Messages.  A UI message carries an id, a role and its text; a user      *)
(* message may embed a "[Model: m]" and a "[Provider: p]" directive ("" =  *)
(* none) and an assistant message may hold a tool invocation.  The content *)
(* of a core (model) message is a sequence of tokens.                      *)
(***************************************************************************)
UserMsg(id, model, provider, text) ==
    [id |-> id, role |-> "user", model |-> model, provider |-> provider,
     text |-> text, tool |-> "none"]

AssistantMsg(id, text, tool) ==
    [id |-> id, role |-> "assistant", model |-> "", provider |-> "",
     text |-> text, tool |-> tool]

\* The conversations a request may carry; each ends with a user message.
Conversations ==
    { <<UserMsg(1, "modelA", "provX", "hello")>>,
      <<UserMsg(1, "modelA", "provX", "build"),
        AssistantMsg(2, "ok", "none"),
        UserMsg(3, "modelB", "provY", "go on")>>,
      <<UserMsg(1, "modelA", "provX", "build"),
        AssistantMsg(2, "calling", "pending"),
        UserMsg(3, "modelB", "provY", "go on"),
        AssistantMsg(4, "ok", "none"),
        UserMsg(5, "", "", "more")>> }

FileMaps == { {}, {WORK_DIR \o <<"/", "a.ts">>, WORK_DIR \o <<"/", "b.ts">>} }

Token(kind, value) == [kind |-> kind, value |-> value]

\* convertToCoreMessages: role kept, id dropped, parts flattened to content
CoreContent(m) ==
    (IF m.model # "" THEN <<Token("model", m.model)>> ELSE <<>>)
    \o (IF m.provider # "" THEN <<Token("provider", m.provider)>> ELSE <<>>)
    \o <<Token("text", m.text)>>
    \o (IF m.tool # "none" THEN <<Token("tool", m.tool)>> ELSE <<>>)

ConvertToCoreMessages(ms) ==
    [i \in 1..Len(ms) |-> [role |-> ms[i].role, content |-> CoreContent(ms[i])]]


\* mcpService.processToolInvocations: a pending tool invocation of the
\* conversation is resolved; a new list is built, the argument is not changed
ResolveTool(m) == [m EXCEPT !.tool = IF @ = "pending" THEN "resolved" ELSE @]

ProcessToolInvocations(ms) == [i \in 1..Len(ms) |-> ResolveTool(ms[i])]

LastUserMessageIsFirst(ms) ==
    LET idx == {i \in 1..Len(ms) : ms[i].role = "user"}
    IN  ms[CHOOSE i \in idx : \A j \in idx : i <= j]

\* processedMessages.filter((x) => x.role == 'user').slice(-1)[0]
LastUserMessage(ms) ==
    LET idx == {i \in 1..Len(ms) : ms[i].role = "user"}
    IN  ms[CHOOSE i \in idx : \A j \in idx : j <= i]

\* extractPropertiesFromMessage: the directives embedded in the content of
\* a core message, else the defaults
Directive(cm, kind, default) ==
    LET at == {i \in DOMAIN cm.content : cm.content[i].kind = kind}
    IN  IF at = {} THEN default
        ELSE cm.content[CHOOSE i \in at : \A j \in at : i <= j].value

ExtractPropertiesFromMessage(cm) ==
    [model    |-> Directive(cm, "model", DEFAULT_MODEL),
     provider |-> Directive(cm, "provider", DEFAULT_PROVIDER)]

\* the text of a segment: its content chunks, in order
ChunkToken(n, k) == [kind |-> "chunk", seg |-> n, idx |-> k]

SegmentText(n, produced) == [k \in 1..produced |-> ChunkToken(n, k)]

\* api.chat.ts:363-370: the message list of a continuation call
ContinuationDirective(ms) ==
    LET props == ExtractPropertiesFromMessage(
                     ConvertToCoreMessages(<<LastUserMessage(ms)>>)[1])
    IN  [role |-> "user",
         content |-> <<Token("model", props.model),
                       Token("provider", props.provider),
                       Token("text", CONTINUE_PROMPT)>>]

ContinuationMessagesNoAssistant(ms, content) ==
    ConvertToCoreMessages(ms) \o <<ContinuationDirective(ms)>>

ContinuationMessagesFromRequest(ms, content) ==
    ConvertToCoreMessages(messages)
        \o <<[role |-> "assistant", content |-> content]>>
        \o <<ContinuationDirective(ms)>>

ContinuationMessages(ms, content) ==
    ConvertToCoreMessages(ms)
        \o <<[role |-> "assistant", content |-> content]>>
        \o <<ContinuationDirective(ms)>>

(***************************************************************************)
(* Token usage.  A usage object maps some of the five field names to a     *)
(* value; a value is <<n>> for the number n and <<>> for a field that is   *)
(* present without a value (undefined).  A sub-call reports <<u>> for the  *)
(* usage object u, or <<>> when it reports no usage at all.                *)
(***************************************************************************)
UsageObjects ==
    { [promptTokens |-> <<1>>, completionTokens |-> <<2>>, totalTokens |-> <<4>>],
      [inputTokens |-> <<1>>, outputTokens |-> <<2>>, totalTokens |-> <<>>] }

UsageReports == {<<>>} \cup { <<u>> : u \in UsageObjects }

\* v || 0
OrZero(v) == IF v = <<>> THEN 0 ELSE v[1]

\* a + b on values: undefined + n is NaN, which is falsy like undefined
Plus(a, b) == IF a = <<>> \/ b = <<>> THEN <<>> ELSE <<a[1] + b[1]>>

\* 'a' in usage ? usage.a : 'b' in usage ? usage.b : 0
FieldOf(u, a, b) ==
    IF a \in DOMAIN u THEN u[a] ELSE IF b \in DOMAIN u THEN u[b] ELSE <<0>>

\* api.chat.ts:304-325 (and 152-174, 222-244): one sub-call's usage is added
AddUsage(cum, report) ==
    IF report = <<>> THEN cum
    ELSE LET u == report[1]
             promptTokens == FieldOf(u, "promptTokens", "inputTokens")
             completionTokens == FieldOf(u, "completionTokens", "outputTokens")
             totalTokens ==
                 IF "totalTokens" \in DOMAIN u THEN u["totalTokens"]
                 ELSE Plus(promptTokens, completionTokens)
         IN  [completionTokens |-> cum.completionTokens + OrZero(completionTokens),
              promptTokens     |-> cum.promptTokens + OrZero(promptTokens),
              totalTokens      |-> cum.totalTokens + OrZero(totalTokens)]

\* What a sub-call reports, read off the usage object independently of the
\* handler: the number held under either name of a field, 0 when there is none.
Held(u, names) ==
    LET have == {a \in names : a \in DOMAIN u /\ u[a] # <<>>}
    IN  IF have = {} THEN 0 ELSE u[CHOOSE a \in have : TRUE][1]

ReportedPrompt(u) == Held(u, {"promptTokens", "inputTokens"})

ReportedCompletion(u) == Held(u, {"completionTokens", "outputTokens"})

ReportedTotal(u) ==
    IF "totalTokens" \in DOMAIN u /\ u["totalTokens"] # <<>>
    THEN u["totalTokens"][1]
    ELSE ReportedPrompt(u) + ReportedCompletion(u)

AddReported(rep, report) ==
    IF report = <<>> THEN rep
    ELSE [promptTokens     |-> rep.promptTokens + ReportedPrompt(report[1]),
          completionTokens |-> rep.completionTokens + ReportedCompletion(report[1]),
          totalTokens      |-> rep.totalTokens + ReportedTotal(report[1])]

(***************************************************************************)
(* The stall monitor (StreamRecoveryManager): its state, with the number   *)
(* of updateActivity() calls it received and of onTimeout invocations it   *)
(* made.                                                                   *)
(***************************************************************************)
NewMonitor == [st |-> "idle", updates |-> 0, timeouts |-> 0]

StartMonitoring(m) == IF m.st = "stopped" THEN m ELSE [m EXCEPT !.st = "monitoring"]

\* the inactivity clock is reset; a stopped monitor stays stopped
UpdateActivity(m) ==
    [m EXCEPT !.updates = @ + 1,
              !.st = IF @ = "stopped" THEN @ ELSE "active"]

Stop(m) == [m EXCEPT !.st = "stopped"]

\* the inactivity clock may run out while the monitor is watching
TimerArmed(m) == m.st \in {"monitoring", "active"}

\* the timeout elapsed: the stall is detected and onTimeout is invoked
Stalled(m) == [m EXCEPT !.st = "stalled", !.timeouts = @ + 1]

(***************************************************************************)
(* Errors.  The message of an error is the set of the fragments it is made *)
(* of; message, statusCode, isRetryable and provider are <<v>> when the    *)
(* error carries the field and <<>> when it does not.                      *)
(***************************************************************************)
Fragments ==
    {"model", "not found", "Invalid JSON response", "API key", "unauthorized",
     "authentication", "token", "limit", "rate limit", "429", "network",
     "timeout", "something else"}

\* the substrings the classifiers look for that a fragment contains
SubstringsOf(fragment) ==
    IF fragment = "rate limit" THEN {"rate limit", "limit"} ELSE {fragment}

\* message.includes(sub)
Includes(message, sub) == \E fragment \in message : sub \in SubstringsOf(fragment)

ErrorOf(message) ==
    [message |-> <<message>>, statusCode |-> <<>>, isRetryable |-> <<>>,
     provider |-> <<>>]

\* api.chat.ts:356
BudgetError == ErrorOf({"Cannot continue message: Maximum segments reached"})

\* a fixed message of the classifier / the original message passed through
Fixed(text) == [text |-> text, raw |-> {}]

PassedThrough(message) == [text |-> "Custom error: ", raw |-> message]

\* the messages of the classifier, api.chat.ts:460-484
InvalidModelText == "Custom error: Invalid model selected."
InvalidResponseText == "Custom error: The AI service returned an invalid response."
AuthenticationText == "Custom error: Invalid or missing API key."
TokenLimitText == "Custom error: Token limit exceeded."
RateLimitText == "Custom error: API rate limit exceeded."
NetworkText == "Custom error: Network error."

\* error.message is missing or the empty string
NoMessage(error) == error.message = <<>> \/ error.message = <<{}>>

\* api.chat.ts:455-488
OnError(error) ==
    LET errorMessage == IF NoMessage(error) THEN {"Unknown error"}
                        ELSE error.message[1]
    IN  IF Includes(errorMessage, "model") /\ Includes(errorMessage, "not found")
        THEN Fixed(InvalidModelText)
        ELSE IF Includes(errorMessage, "Invalid JSON response")
        THEN Fixed(InvalidResponseText)
        ELSE IF \/ Includes(errorMessage, "API key")
                \/ Includes(errorMessage, "unauthorized")
                \/ Includes(errorMessage, "authentication")
        THEN Fixed(AuthenticationText)
        ELSE IF Includes(errorMessage, "token") /\ Includes(errorMessage, "limit")
        THEN Fixed(TokenLimitText)
        ELSE IF Includes(errorMessage, "rate limit") \/ Includes(errorMessage, "429")
        THEN Fixed(RateLimitText)
        ELSE IF Includes(errorMessage, "network") \/ Includes(errorMessage, "timeout")
        THEN Fixed(NetworkText)
        ELSE PassedThrough(errorMessage)

\* The classes of the error taxonomy, in its order, by the substrings the
\* classifier looks for; the first class that matches is the error's class.
MatchesAuthentication(message) ==
    \/ Includes(message, "API key")
    \/ Includes(message, "unauthorized")
    \/ Includes(message, "authentication")

MatchesInvalidResponse(message) == Includes(message, "Invalid JSON response")

MatchesRateLimit(message) == Includes(message, "rate limit") \/ Includes(message, "429")

MatchesTokenLimit(message) == Includes(message, "token") /\ Includes(message, "limit")

MatchesNetwork(message) == Includes(message, "network") \/ Includes(message, "timeout")

TaxonomyClass(message) ==
    IF MatchesAuthentication(message) THEN "Authentication"
    ELSE IF MatchesInvalidResponse(message) THEN "Invalid response"
    ELSE IF MatchesRateLimit(message) THEN "Rate limit"
    ELSE IF MatchesTokenLimit(message) THEN "Token/context-limit"
    ELSE IF MatchesNetwork(message) THEN "Network/timeout"
    ELSE "Unknown"

\* the message the classifier has for a class
ClassText(class) ==
    CASE class = "Authentication" -> AuthenticationText
      [] class = "Invalid response" -> InvalidResponseText
      [] class = "Rate limit" -> RateLimitText
      [] class = "Token/context-limit" -> TokenLimitText
      [] class = "Network/timeout" -> NetworkText

\* api.chat.ts:492-500
StreamResponse == [status |-> 200, statusText |-> "", body |-> [stream |-> TRUE]]

\* api.chat.ts:501-533: the response for an error caught before the stream
\* is returned; the body is the object that is serialised
PreStreamResponseAlwaysRetryable(error) ==
    LET errorResponse ==
            [error       |-> TRUE,
             message     |-> IF NoMessage(error)
                             THEN {"An unexpected error occurred"}
                             ELSE error.message[1],
             statusCode  |-> IF error.statusCode = <<>> \/ error.statusCode = <<0>>
                             THEN 500
                             ELSE error.statusCode[1],
             isRetryable |-> TRUE,
             provider    |-> IF error.provider = <<>> THEN "unknown"
                             ELSE error.provider[1]]
    IN  IF ~NoMessage(error) /\ Includes(error.message[1], "API key")
        THEN [status |-> 401, statusText |-> "Unauthorized",
              body |-> [errorResponse EXCEPT
                            !.message = {"Invalid or missing API key"},
                            !.statusCode = 401,
                            !.isRetryable = FALSE]]
        ELSE [status |-> errorResponse.statusCode, statusText |-> "Error",
              body |-> errorResponse]

PreStreamResponseStatus500(error) ==
    LET errorResponse ==
            [error       |-> TRUE,
             message     |-> IF NoMessage(error)
                             THEN {"An unexpected error occurred"}
                             ELSE error.message[1],
             statusCode  |-> IF error.statusCode = <<>> \/ error.statusCode = <<0>>
                             THEN 500
                             ELSE error.statusCode[1],
             isRetryable |-> error.isRetryable # <<FALSE>>,
             provider    |-> IF error.provider = <<>> THEN "unknown"
                             ELSE error.provider[1]]
    IN  IF ~NoMessage(error) /\ Includes(error.message[1], "API key")
        THEN [status |-> 401, statusText |-> "Unauthorized",
              body |-> [errorResponse EXCEPT
                            !.message = {"Invalid or missing API key"},
                            !.statusCode = 401,
                            !.isRetryable = FALSE]]
        ELSE [status |-> 500, statusText |-> "Error", body |-> errorResponse]

PreStreamResponse(error) ==
    LET errorResponse ==
            [error       |-> TRUE,
             message     |-> IF NoMessage(error)
                             THEN {"An unexpected error occurred"}
                             ELSE error.message[1],
             statusCode  |-> IF error.statusCode = <<>> \/ error.statusCode = <<0>>
                             THEN 500
                             ELSE error.statusCode[1],
             isRetryable |-> error.isRetryable # <<FALSE>>,
             provider    |-> IF error.provider = <<>> THEN "unknown"
                             ELSE error.provider[1]]
    IN  IF ~NoMessage(error) /\ Includes(error.message[1], "API key")
        THEN [status |-> 401, statusText |-> "Unauthorized",
              body |-> [errorResponse EXCEPT
                            !.message = {"Invalid or missing API key"},
                            !.statusCode = 401,
                            !.isRetryable = FALSE]]
        ELSE [status |-> errorResponse.statusCode, statusText |-> "Error",
              body |-> errorResponse]

(***************************************************************************)
(* Events of the client-facing stream.                                     *)
(***************************************************************************)
Progress(label, status, order) ==
    [type |-> "progress", label |-> label, status |-> status, order |-> order]

UsageEvent(cum) ==
    [type |-> "usage", completionTokens |-> cum.completionTokens,
     promptTokens |-> cum.promptTokens, totalTokens |-> cum.totalTokens]

ChatSummaryEvent(s, chatId) == [type |-> "chatSummary", summary |-> s, chatId |-> chatId]

\* 257-263: a key under the work directory loses that prefix
RelativePath(path) ==
    IF Len(path) >= Len(WORK_DIR) /\ SubSeq(path, 1, Len(WORK_DIR)) = WORK_DIR
    THEN SubSeq(path, Len(WORK_DIR) + 1, Len(path))
    ELSE path

CodeContextEvent(selected) ==
    [type |-> "codeContext", files |-> {RelativePath(path) : path \in selected}]

ChunkEvent(n, k) == [type |-> "chunk", seg |-> n, idx |-> k]

\* an error part of segment n, passed through by its UI message stream
ErrorPartEvent(n) == [type |-> "error", from |-> "stream", seg |-> n]

\* { type: 'error', errorText: onError(error) } written by the UI message
\* stream; from and cause record where the error came from and its message
ErrorEvent(what, error) ==
    [type |-> "error", from |-> what, seg |-> 0, cause |-> error.message,
     errorText |-> OnError(error)]

\* writer.write / the merge pump: enqueue, ignored once the stream is closed
Write(o, e) == IF closed THEN o ELSE Append(o, e)


(***************************************************************************)
(* Generation segments.  st is the state of the streamText call:           *)
(*   "called"     the call is awaited                                      *)
(*   "callFailed" the call threw                                           *)
(*   "streaming"  the call returned and its stream is being produced       *)
(*   "finishing"  its onFinish is suspended at an await                    *)
(*   "done"       its onFinish returned (or was not invoked) and its       *)
(*                stream ends                                              *)
(*   "failed"     its onFinish threw err and its stream fails              *)
(* produced counts the content chunks the model has produced, errPart says *)
(* that an error part follows them; stepped says that its generation step  *)
(* has finished, reporting toolCalls; delivered counts the parts the merge *)
(* pump has enqueued on the client stream.  The fullStream loop of a       *)
(* segment reads a part in the turn in which the part is produced.         *)
(***************************************************************************)
NewSegment(msgs) ==
    [msgs |-> msgs, summary |-> summary, contextFiles |-> filteredFiles,
     messageSliceId |-> messageSliceId,
     st |-> "called", produced |-> 0, errPart |-> FALSE, reason |-> "",
     pump |-> "none", delivered |-> 0, loop |-> "none", err |-> <<>>,
     stepped |-> FALSE, toolCalls |-> <<>>]

Parts(sg) == sg.produced + (IF sg.errPart THEN 1 ELSE 0)

FinishReasons == {"stop", "length", "error"}

\* the state outside the chat request, at the start of the process
\* a second chat request that has not arrived yet
NoRequest ==
    [pc |-> "none", began |-> "none", progressCounter |-> 0,
     cumulativeUsage |-> <<>>, segments |-> 0, out |-> <<>>,
     reported |-> [promptTokens |-> 0, completionTokens |-> 0, totalTokens |-> 0]]

\* the chat component after its first render: useChat is ready, nothing
\* typed; calls counts the calls of sendMessage and last is the content of
\* the latest one, sent counts the calls of sendChatMessage
NewClient ==
    [status |-> "ready", messages |-> <<>>, input |-> "", aborted |-> FALSE,
     actionsAborted |-> FALSE, stops |-> 0, error |-> <<>>, llmErrorAlert |-> <<>>,
     calls |-> 0, last |-> "", sent |-> 0]

InitOuter ==
    /\ client = NewClient
    /\ other = NoRequest
    /\ cachedProviders = <<>>
    /\ cachedDefaultProvider = <<>>
    /\ llmManager = [providers |-> {"OpenAI"}, default |-> "OpenAI"]
    /\ loaded = <<>>
    /\ filePath = <<>>
    /\ result = <<>>

Init ==
    /\ InitOuter
    /\ thrown = <<>>
    /\ messages \in Conversations
    /\ files \in FileMaps
    /\ contextOptimization \in BOOLEAN
    /\ pc = "received"
    /\ processedMessages = <<>>
    /\ messageSliceId = 0
    /\ summary = ""
    /\ filteredFiles = {}
    /\ progressCounter = 1
    /\ cumulativeUsage = [completionTokens |-> 0, promptTokens |-> 0, totalTokens |-> 0]
    /\ switches = 0
    /\ monitor = NewMonitor
    /\ segs = <<>>
    /\ out = <<>>
    /\ closed = FALSE
    /\ reported = [promptTokens |-> 0, completionTokens |-> 0, totalTokens |-> 0]
    /\ response = <<>>

(***************************************************************************)
(* execute(), api.chat.ts:114-454.                                         *)
(***************************************************************************)
\* 84-111: an error is thrown before the stream exists and caught at 501
SetupFails(error) ==
    /\ pc = "received"
    /\ pc' = "rejected"
    /\ thrown' = <<error>>
    /\ response' = <<PreStreamResponse(error)>>
    /\ UNCHANGED <<outerVars, messages, files, contextOptimization, processedMessages,
                   messageSliceId, summary, filteredFiles, progressCounter,
                   cumulativeUsage, switches, monitor, segs, out, closed,
                   reported>>

\* 51, 68-72: request.json() rejects, or a cookie value does not parse;
\* both are outside the try block (83) and the action's promise rejects
ParseFails ==
    /\ pc = "received"
    /\ pc' = "crashed"
    /\ UNCHANGED <<outerVars, thrown, response, messages, files,
                   contextOptimization, processedMessages, messageSliceId,
                   summary, filteredFiles, progressCounter, cumulativeUsage,
                   switches, monitor, segs, out, closed, reported>>

ExecuteStartUnmonitored ==
    /\ pc = "received"
    /\ monitor' = monitor
    /\ pc' = "tools"
    /\ response' = <<StreamResponse>>
    /\ UNCHANGED <<outerVars, thrown, messages, files, contextOptimization, processedMessages,
                   messageSliceId, summary, filteredFiles, progressCounter,
                   cumulativeUsage, switches, segs, out, closed, reported>>

\* 113-122, 492-500: the stream is created and execute() runs up to its
\* first await (the monitor is started, processToolInvocations is called);
\* the response is returned
ExecuteStart ==
    /\ pc = "received"
    /\ monitor' = StartMonitoring(monitor)
    /\ pc' = "tools"
    /\ response' = <<StreamResponse>>
    /\ UNCHANGED <<outerVars, thrown, messages, files, contextOptimization, processedMessages,
                   messageSliceId, summary, filteredFiles, progressCounter,
                   cumulativeUsage, switches, segs, out, closed, reported>>

StartGenerationNoIncrement(o, counter, processed, sliceId, sum, selected) ==
    /\ out' = Write(o, Progress("response", "in-progress", counter))
    /\ progressCounter' = counter
    /\ segs' = <<[NewSegment(ConvertToCoreMessages(processed))
                    EXCEPT !.summary = sum, !.contextFiles = selected,
                           !.messageSliceId = sliceId]>>
    /\ pc' = "firstCall"

StartGenerationTwice(o, counter, processed, sliceId, sum, selected) ==
    /\ out' = Write(Write(o, Progress("response", "in-progress", counter)),
                    Progress("response", "in-progress", counter + 1))
    /\ progressCounter' = counter + 2
    /\ segs' = <<[NewSegment(ConvertToCoreMessages(processed))
                    EXCEPT !.summary = sum, !.contextFiles = selected,
                           !.messageSliceId = sliceId]>>
    /\ pc' = "firstCall"

\* 405-430: the response in-progress event, then the first streamText call
\* (o and counter are the stream and the counter as left by the code before)
StartGeneration(o, counter, processed, sliceId, sum, selected) ==
    /\ out' = Write(o, Progress("response", "in-progress", counter))
    /\ progressCounter' = counter + 1
    /\ segs' = <<[NewSegment(ConvertToCoreMessages(processed))
                    EXCEPT !.summary = sum, !.contextFiles = selected,
                           !.messageSliceId = sliceId]>>
    /\ pc' = "firstCall"

OptimizationRunsOnFlagAlone(fileMap, flag) == flag

\* 117, 128: filePaths.length > 0 && contextOptimization (the file map is
\* the set of its paths)
OptimizationRuns(fileMap, flag) == fileMap # {} /\ flag

\* 124-126
SliceId(processed) == IF Len(processed) > 3 THEN Len(processed) - 3 ELSE 0

\* 122-139 or 122-128, 282-430: processToolInvocations returned
ToolsDone ==
    /\ pc = "tools"
    /\ LET processed == ProcessToolInvocations(messages)
       IN  /\ processedMessages' = processed
           /\ messageSliceId' = SliceId(processed)
           /\ IF OptimizationRuns(files, contextOptimization)
              THEN /\ out' = Write(out, Progress("summary", "in-progress", progressCounter))
                   /\ progressCounter' = progressCounter + 1
                   /\ pc' = "summary"
                   /\ segs' = segs
              ELSE StartGeneration(out, progressCounter, processed,
                                   SliceId(processed), summary, filteredFiles)
    /\ UNCHANGED <<outerVars, thrown, response, messages, files, contextOptimization, summary, filteredFiles,
                   cumulativeUsage, switches, monitor, closed, reported>>

ExecuteFailsRethrown(at, what, error) ==
    /\ pc = at
    /\ pc' = "failed"
    /\ out' = out
    /\ response' = <<PreStreamResponse(error)>>
    /\ UNCHANGED <<outerVars, thrown, messages, files, contextOptimization, processedMessages,
                   messageSliceId, summary, filteredFiles, progressCounter,
                   cumulativeUsage, switches, monitor, closed, reported>>

\* execute() rejects: the UI message stream writes the in-band error
ExecuteFails(at, what, error) ==
    /\ pc = at
    /\ pc' = "failed"
    /\ out' = Write(out, ErrorEvent(what, error))
    /\ UNCHANGED <<outerVars, thrown, response, messages, files, contextOptimization, processedMessages,
                   messageSliceId, summary, filteredFiles, progressCounter,
                   cumulativeUsage, switches, monitor, closed, reported>>

ToolsFail(error) ==
    ExecuteFails("tools", "processToolInvocations", error) /\ segs' = segs

\* 144-212: createSummary returned s after reporting its usage
SummaryDone(report, s) ==
    /\ pc = "summary"
    /\ cumulativeUsage' = AddUsage(cumulativeUsage, report)
    /\ reported' = AddReported(reported, report)
    /\ summary' = s
    /\ out' = Write(Write(Write(out,
                 Progress("summary", "complete", progressCounter)),
                 ChatSummaryEvent(s, processedMessages[Len(processedMessages)].id)),
                 Progress("context", "in-progress", progressCounter + 1))
    /\ progressCounter' = progressCounter + 2
    /\ pc' = "select"
    /\ UNCHANGED <<outerVars, thrown, response, messages, files, contextOptimization, processedMessages,
                   messageSliceId, filteredFiles, switches, monitor, segs, closed>>

SummaryFailFallsBack(error) ==
    /\ pc = "summary"
    /\ StartGeneration(out, progressCounter, processedMessages, messageSliceId,
                       summary, filteredFiles)
    /\ UNCHANGED <<outerVars, thrown, response, messages, files, contextOptimization,
                   processedMessages, messageSliceId, summary, filteredFiles,
                   cumulativeUsage, switches, monitor, closed, reported>>

\* 144: createSummary threw
SummaryFail(error) == ExecuteFails("summary", "createSummary", error) /\ segs' = segs

SelectDoneCompleteFirst(report, selected) ==
    /\ pc = "select"
    /\ cumulativeUsage' = AddUsage(cumulativeUsage, report)
    /\ reported' = AddReported(reported, report)
    /\ filteredFiles' = selected
    /\ StartGeneration(
           Write(Write(out, Progress("context", "complete", progressCounter)),
                 CodeContextEvent(selected)),
           progressCounter + 1, processedMessages, messageSliceId, summary, selected)
    /\ UNCHANGED <<outerVars, thrown, response, messages, files, contextOptimization,
                   processedMessages, messageSliceId, summary, switches,
                   monitor, closed>>

\* 212-280, 282-430: selectContext returned the selected files
SelectDone(report, selected) ==
    /\ pc = "select"
    /\ cumulativeUsage' = AddUsage(cumulativeUsage, report)
    /\ reported' = AddReported(reported, report)
    /\ filteredFiles' = selected
    /\ StartGeneration(
           Write(Write(out, CodeContextEvent(selected)),
                 Progress("context", "complete", progressCounter)),
           progressCounter + 1, processedMessages, messageSliceId, summary, selected)
    /\ UNCHANGED <<outerVars, thrown, response, messages, files, contextOptimization, processedMessages,
                   messageSliceId, summary, switches, monitor, closed>>

SelectFail(error) == ExecuteFails("select", "selectContext", error) /\ segs' = segs

\* 416-453: the first streamText call returned; the fullStream loop is
\* started, its UI message stream is merged and execute() returns
FirstCallReturns ==
    /\ pc = "firstCall"
    /\ segs' = [segs EXCEPT ![1].st = "streaming", ![1].loop = "running",
                            ![1].pump = "open"]
    /\ pc' = "returned"
    /\ UNCHANGED <<outerVars, thrown, response, messages, files, contextOptimization, processedMessages,
                   messageSliceId, summary, filteredFiles, progressCounter,
                   cumulativeUsage, switches, monitor, out, closed, reported>>

\* 416: the first streamText call threw
FirstCallFails(error) ==
    /\ ExecuteFails("firstCall", "streamText", error)
    /\ segs' = [segs EXCEPT ![1].st = "callFailed"]


(***************************************************************************)
(* The model and the streams of a segment.                                 *)
(***************************************************************************)
reqVars == <<messages, files, contextOptimization, pc, processedMessages,
             messageSliceId, summary, filteredFiles, response, thrown>>

\* the model produces one more content chunk of segment n and the fullStream
\* loop of the segment reads it (api.chat.ts:433-434 for the first segment,
\* 391 for a continuation, whose loop does nothing with it)
ModelChunk(n) ==
    /\ n \in DOMAIN segs
    /\ segs[n].st = "streaming"
    /\ ~segs[n].errPart
    /\ segs[n].produced < MaxChunks
    /\ segs' = [segs EXCEPT ![n].produced = @ + 1]
    /\ monitor' = IF n = 1 THEN UpdateActivity(monitor) ELSE monitor
    /\ UNCHANGED <<outerVars, reqVars, progressCounter, cumulativeUsage, switches,
                   out, closed, reported>>

\* the generation of segment n fails: an error part enters its stream and
\* the fullStream loop of the segment returns on it (436-448, 392-396)
ModelError(n) ==
    /\ n \in DOMAIN segs
    /\ segs[n].st = "streaming"
    /\ ~segs[n].errPart
    /\ segs' = [segs EXCEPT ![n].errPart = TRUE,
                            ![n].loop = IF n = 1 THEN "done" ELSE @]
    /\ monitor' = IF n = 1 THEN Stop(UpdateActivity(monitor)) ELSE monitor
    /\ UNCHANGED <<outerVars, reqVars, progressCounter, cumulativeUsage, switches,
                   out, closed, reported>>

\* a failed generation may end its stream without invoking onFinish
ModelErrorEnd(n) ==
    /\ n \in DOMAIN segs
    /\ segs[n].st = "streaming"
    /\ segs[n].errPart
    /\ segs' = [segs EXCEPT ![n].st = "done"]
    /\ UNCHANGED <<outerVars, reqVars, progressCounter, cumulativeUsage, switches, monitor,
                   out, closed, reported>>

\* the finish reasons segment n may end with
ReasonsOf(sg) == IF sg.errPart THEN {"error"} ELSE FinishReasons \ {"error"}

(***************************************************************************)
(* options.onStepFinish, api.chat.ts:288-300.  A tool call carries its     *)
(* arguments under input or under args (<<x>>) or not at all (<<>>).       *)
(***************************************************************************)
ArgValues == {"{a:1}", "null"}

\* a value that is not falsy
Truthy(x) == x # "null"

EmptyArgs == "{}"

\* the tool calls a generation step may report, the i-th with id i
ToolCall(id, input, args) ==
    [toolCallId |-> id, toolName |-> <<"tool", id>>, input |-> input, args |-> args]

ArgFields == {<<>>} \cup {<<x>> : x \in ArgValues}

ToolCallLists ==
    UNION { [1..k -> ArgFields \X ArgFields] : k \in 0..MaxToolCalls }

ReportedCalls(shapes) ==
    [i \in DOMAIN shapes |-> ToolCall(i, shapes[i][1], shapes[i][2])]

ToolArgsFromInputOnly(toolCall) ==
    IF toolCall.input # <<>> /\ Truthy(toolCall.input[1]) THEN toolCall.input[1]
    ELSE EmptyArgs

\* 295: toolCall.input || toolCall.args || {}
ToolArgs(toolCall) ==
    IF toolCall.input # <<>> /\ Truthy(toolCall.input[1]) THEN toolCall.input[1]
    ELSE IF toolCall.args # <<>> /\ Truthy(toolCall.args[1]) THEN toolCall.args[1]
    ELSE EmptyArgs

\* mcpService.processToolCall: the call is surfaced as an event of the
\* client stream (call records the tool call it was made for)
ToolCallEvent(n, toolCall) ==
    [type |-> "toolCall", seg |-> n, toolCallId |-> toolCall.toolCallId,
     toolName |-> toolCall.toolName, args |-> ToolArgs(toolCall),
     call |-> toolCall]

RECURSIVE ProcessToolCalls(_, _, _)
\* 290-299: toolCalls.forEach
ProcessToolCalls(o, n, toolCalls) ==
    IF toolCalls = <<>> THEN o
    ELSE ProcessToolCalls(Write(o, ToolCallEvent(n, Head(toolCalls))), n,
                          Tail(toolCalls))

\* 288-300: the generation step of segment n finished, reporting toolCalls
StepFinish(n, toolCalls) ==
    /\ n \in DOMAIN segs
    /\ segs[n].st = "streaming"
    /\ ~segs[n].errPart
    /\ ~segs[n].stepped
    /\ segs' = [segs EXCEPT ![n].stepped = TRUE, ![n].toolCalls = toolCalls]
    /\ out' = ProcessToolCalls(out, n, toolCalls)
    /\ UNCHANGED <<outerVars, reqVars, progressCounter, cumulativeUsage,
                   switches, monitor, closed, reported>>

(***************************************************************************)
(* options.onFinish, api.chat.ts:301-402.                                  *)
(***************************************************************************)
\* 355: the budget check
BudgetExhausted == switches >= MAX_RESPONSE_SEGMENTS

OnFinishFinalSwapped(n, reason, report) ==
    /\ n \in DOMAIN segs
    /\ segs[n].st = "streaming"
    /\ reason \in ReasonsOf(segs[n])
    /\ reason # "length"
    /\ cumulativeUsage' = AddUsage(cumulativeUsage, report)
    /\ reported' = AddReported(reported, report)
    /\ out' = Write(Write(out, Progress("response", "complete", progressCounter)),
                    UsageEvent(cumulativeUsage'))
    /\ progressCounter' = progressCounter + 1
    /\ segs' = [segs EXCEPT ![n].st = "finishing", ![n].reason = reason]
    /\ UNCHANGED <<outerVars, reqVars, switches, monitor, closed>>

\* 301-349: segment n finished with a reason other than 'length'; the usage
\* and the response complete events are written, then the timer is awaited
OnFinishFinal(n, reason, report) ==
    /\ n \in DOMAIN segs
    /\ segs[n].st = "streaming"
    /\ reason \in ReasonsOf(segs[n])
    /\ reason # "length"
    /\ cumulativeUsage' = AddUsage(cumulativeUsage, report)
    /\ reported' = AddReported(reported, report)
    /\ out' = Write(Write(out, UsageEvent(cumulativeUsage')),
                    Progress("response", "complete", progressCounter))
    /\ progressCounter' = progressCounter + 1
    /\ segs' = [segs EXCEPT ![n].st = "finishing", ![n].reason = reason]
    /\ UNCHANGED <<outerVars, reqVars, switches, monitor, closed>>

\* 349-352: the timer fired, onFinish returns
OnFinishReturn(n) ==
    /\ n \in DOMAIN segs
    /\ segs[n].st = "finishing"
    /\ segs[n].reason # "length"
    /\ segs' = [segs EXCEPT ![n].st = "done"]
    /\ UNCHANGED <<outerVars, reqVars, progressCounter, cumulativeUsage, switches, monitor,
                   out, closed, reported>>

\* onFinish is invoked once, when the stream of the segment has ended
SegmentStillStreaming(sg) == [sg EXCEPT !.reason = "length"]

SegmentFinished(sg) == [sg EXCEPT !.st = "finishing", !.reason = "length"]

\* 301-325, 355-386: segment n finished with reason 'length'; either the
\* budget error is thrown or the continuation call is issued and awaited
\* (cap bounds the calls explored: the segment that reaches it does not end
\* with reason 'length')
OnFinishLengthInPlace(n, report, cap) ==
    /\ n \in DOMAIN segs
    /\ segs[n].st = "streaming"
    /\ "length" \in ReasonsOf(segs[n])
    /\ Len(segs) < cap
    /\ cumulativeUsage' = AddUsage(cumulativeUsage, report)
    /\ reported' = AddReported(reported, report)
    /\ IF BudgetExhausted
       THEN /\ segs' = [segs EXCEPT ![n].st = "failed", ![n].reason = "length",
                                    ![n].err = <<BudgetError>>]
            /\ processedMessages' = processedMessages
       ELSE /\ segs' = Append([segs EXCEPT ![n] = SegmentFinished(@)],
                              NewSegment(ContinuationMessages(processedMessages,
                                  SegmentText(n, segs[n].produced))))
            /\ processedMessages' = processedMessages
                   \o <<AssistantMsg(Len(processedMessages) + 1, "partial", "none"),
                        UserMsg(Len(processedMessages) + 2, "", "", CONTINUE_PROMPT)>>
    /\ UNCHANGED <<outerVars, messages, files, contextOptimization, pc,
                   messageSliceId, summary, filteredFiles, response, thrown,
                   progressCounter, switches, monitor, out, closed>>

OnFinishLength(n, report, cap) ==
    /\ n \in DOMAIN segs
    /\ segs[n].st = "streaming"
    /\ "length" \in ReasonsOf(segs[n])
    /\ Len(segs) < cap
    /\ cumulativeUsage' = AddUsage(cumulativeUsage, report)
    /\ reported' = AddReported(reported, report)
    /\ IF BudgetExhausted
       THEN segs' = [segs EXCEPT ![n].st = "failed", ![n].reason = "length",
                                 ![n].err = <<BudgetError>>]
       ELSE segs' = Append([segs EXCEPT ![n] = SegmentFinished(@)],
                           NewSegment(ContinuationMessages(processedMessages,
                               SegmentText(n, segs[n].produced))))
    /\ UNCHANGED <<outerVars, reqVars, progressCounter, switches, monitor, out, closed>>

\* 372-401: the continuation call returned; its UI message stream is merged,
\* its fullStream loop is started and onFinish of segment n returns
ContinuationReturns(n) ==
    /\ n \in DOMAIN segs /\ n + 1 \in DOMAIN segs
    /\ segs[n].st = "finishing"
    /\ segs[n + 1].st = "called"
    /\ segs' = [segs EXCEPT ![n].st = "done",
                            ![n + 1].st = "streaming",
                            ![n + 1].pump = "open"]
    /\ UNCHANGED <<outerVars, reqVars, progressCounter, cumulativeUsage, switches, monitor,
                   out, closed, reported>>

\* 372: the continuation call threw, and with it onFinish of segment n
ContinuationFails(n, error) ==
    /\ n \in DOMAIN segs /\ n + 1 \in DOMAIN segs
    /\ segs[n].st = "finishing"
    /\ segs[n + 1].st = "called"
    /\ segs' = [segs EXCEPT ![n].st = "failed", ![n].err = <<error>>,
                            ![n + 1].st = "callFailed"]
    /\ UNCHANGED <<outerVars, reqVars, progressCounter, cumulativeUsage, switches, monitor,
                   out, closed, reported>>

(***************************************************************************)
(* writer.merge: the pump of a merged UI message stream.                   *)
(***************************************************************************)
\* the event for part k of segment n
PartEvent(n, k) == IF k <= segs[n].produced THEN ChunkEvent(n, k) ELSE ErrorPartEvent(n)

\* the pump of segment n enqueues the next part on the client stream
PumpPart(n) ==
    /\ n \in DOMAIN segs
    /\ segs[n].pump = "open"
    /\ segs[n].delivered < Parts(segs[n])
    /\ out' = Write(out, PartEvent(n, segs[n].delivered + 1))
    /\ segs' = [segs EXCEPT ![n].delivered = @ + 1]
    /\ UNCHANGED <<outerVars, reqVars, progressCounter, cumulativeUsage, switches, monitor,
                   closed, reported>>

\* the merged stream of segment n failed (its onFinish threw): the pump
\* writes the in-band error and ends; parts not yet read are lost
PumpError(n) ==
    /\ n \in DOMAIN segs
    /\ segs[n].pump = "open"
    /\ segs[n].st = "failed"
    /\ out' = Write(out, ErrorEvent("onFinish", segs[n].err[1]))
    /\ segs' = [segs EXCEPT ![n].pump = "done"]
    /\ UNCHANGED <<outerVars, reqVars, progressCounter, cumulativeUsage, switches, monitor,
                   closed, reported>>

(***************************************************************************)
(* The end of the fullStream loop of the first segment, api.chat.ts:450-   *)
(* 452.  (The loop of a continuation, 390-399, has no statement after it   *)
(* and its promise is dropped: its end changes nothing.)                   *)
(***************************************************************************)
\* the fullStream of the first segment ended (451) or failed (the loop's
\* promise is rejected and nothing after the loop runs)
LoopEnd ==
    /\ 1 \in DOMAIN segs
    /\ segs[1].loop = "running"
    /\ segs[1].st \in {"done", "failed"}
    /\ segs' = [segs EXCEPT ![1].loop = "done"]
    /\ monitor' = IF segs[1].st = "done" THEN Stop(monitor) ELSE monitor
    /\ UNCHANGED <<outerVars, reqVars, progressCounter, cumulativeUsage, switches, out,
                   closed, reported>>

(***************************************************************************)
(* The client-facing stream closes once execute() has settled and every    *)
(* merged stream has ended: its pump has enqueued the last part of a       *)
(* stream that ended, or has written the error of a stream that failed.    *)
(***************************************************************************)
PumpFinished(sg) ==
    \/ sg.pump = "none" /\ sg.st = "callFailed"
    \/ sg.pump = "done"
    \/ sg.pump = "open" /\ sg.st = "done" /\ sg.delivered = Parts(sg)

Close ==
    /\ ~closed
    /\ pc \in {"returned", "failed"}
    /\ \A n \in DOMAIN segs : PumpFinished(segs[n])
    /\ closed' = TRUE
    /\ UNCHANGED <<outerVars, reqVars, progressCounter, cumulativeUsage, switches, monitor,
                   segs, out, reported>>

Summaries == {"S"}

Selections == { {WORK_DIR \o <<"/", "a.ts">>},
                {WORK_DIR \o <<"/", "a.ts">>, WORK_DIR \o <<"/", "b.ts">>} }

\* api.chat.ts:43-49: the timeout of the monitor elapses with no activity
MonitorTimeout ==
    /\ TimerArmed(monitor)
    /\ monitor.timeouts < MaxStalls
    /\ monitor' = Stalled(monitor)
    /\ UNCHANGED <<outerVars, reqVars, progressCounter, cumulativeUsage, switches, segs,
                   out, closed, reported>>

\* no merge pump has a part to enqueue or an error to write
PumpsIdle ==
    \A n \in DOMAIN segs :
        segs[n].pump = "open" =>
            segs[n].delivered = Parts(segs[n]) /\ segs[n].st # "failed"

\* the errors a failing call of the request may throw
ThrownErrors ==
    { ErrorOf({"rate limit", "token"}),
      [ErrorOf({"network"}) EXCEPT !.statusCode = <<503>>] }

\* the same, where the message of the error plays no part
ChainErrors == { ErrorOf({"something else"}) }

(***************************************************************************)
(* The request.  The merge pumps keep up with the model: a part that can   *)
(* be enqueued on the client stream is enqueued before anything else       *)
(* happens.                                                                *)
(***************************************************************************)
Next ==
    \/ PumpsIdle /\ ParseFails
    \/ PumpsIdle /\ \E error \in ThrownErrors : SetupFails(error)
    \/ PumpsIdle /\ ExecuteStart
    \/ PumpsIdle /\ ToolsDone
    \/ PumpsIdle /\ \E error \in ThrownErrors : ToolsFail(error)
    \/ PumpsIdle /\ \E report \in UsageReports, s \in Summaries : SummaryDone(report, s)
    \/ PumpsIdle /\ \E error \in ThrownErrors : SummaryFail(error)
    \/ PumpsIdle /\ \E report \in UsageReports, selected \in Selections :
                       SelectDone(report, selected)
    \/ PumpsIdle /\ \E error \in ThrownErrors : SelectFail(error)
    \/ PumpsIdle /\ FirstCallReturns
    \/ PumpsIdle /\ \E error \in ThrownErrors : FirstCallFails(error)
    \/ PumpsIdle /\ \E n \in 1..MaxSegments : ModelChunk(n)
    \/ PumpsIdle /\ \E n \in 1..MaxSegments : ModelError(n)
    \/ PumpsIdle /\ \E n \in 1..MaxSegments : ModelErrorEnd(n)
    \/ PumpsIdle /\ \E n \in 1..MaxSegments, reason \in FinishReasons,
                       report \in UsageReports : OnFinishFinal(n, reason, report)
    \/ PumpsIdle /\ \E n \in 1..MaxSegments : OnFinishReturn(n)
    \/ PumpsIdle /\ \E n \in 1..MaxSegments, report \in UsageReports :
                       OnFinishLength(n, report, MaxSegments)
    \/ PumpsIdle /\ \E n \in 1..MaxSegments : ContinuationReturns(n)
    \/ PumpsIdle /\ \E n \in 1..MaxSegments, error \in ThrownErrors :
                       ContinuationFails(n, error)
    \/ \E n \in 1..MaxSegments : PumpPart(n)
    \/ \E n \in 1..MaxSegments : PumpError(n)
    \/ PumpsIdle /\ LoopEnd
    \/ PumpsIdle /\ Close

Spec == Init /\ [][Next]_vars

(***************************************************************************)
(* The streams of a request.  The merge pumps run on their own, at any     *)
(* speed; the requests are those that skip context optimization (the flag  *)
(* is off) and whose generation calls all report the same usage, explored  *)
(* up to MaxStreamSegments calls.                                          *)
(***************************************************************************)
StreamReports ==
    { <<[promptTokens |-> <<1>>, completionTokens |-> <<2>>, totalTokens |-> <<4>>]>> }

InitStream == Init /\ contextOptimization = FALSE

NextStream ==
    \/ ExecuteStart
    \/ ToolsDone
    \/ \E error \in ChainErrors : ToolsFail(error)
    \/ FirstCallReturns
    \/ \E error \in ChainErrors : FirstCallFails(error)
    \/ \E n \in 1..MaxStreamSegments : ModelChunk(n)
    \/ \E n \in 1..MaxStreamSegments : ModelError(n)
    \/ \E n \in 1..MaxStreamSegments : ModelErrorEnd(n)
    \/ \E n \in 1..MaxStreamSegments, reason \in FinishReasons, report \in StreamReports :
           OnFinishFinal(n, reason, report)
    \/ \E n \in 1..MaxStreamSegments : OnFinishReturn(n)
    \/ \E n \in 1..MaxStreamSegments, report \in StreamReports :
           OnFinishLength(n, report, MaxStreamSegments)
    \/ \E n \in 1..MaxStreamSegments : ContinuationReturns(n)
    \/ \E n \in 1..MaxStreamSegments, error \in ChainErrors :
           ContinuationFails(n, error)
    \/ \E n \in 1..MaxStreamSegments : PumpPart(n)
    \/ \E n \in 1..MaxStreamSegments : PumpError(n)
    \/ LoopEnd
    \/ Close

SpecStream == InitStream /\ [][NextStream]_vars

(***************************************************************************)
(* The continuation chain alone: as Spec, for the requests that skip       *)
(* context optimization (the flag is off) and whose generation calls all   *)
(* report the same usage, explored up to MaxChainSegments calls.           *)
(***************************************************************************)
NextChain ==
    \/ PumpsIdle /\ ExecuteStart
    \/ PumpsIdle /\ ToolsDone
    \/ PumpsIdle /\ \E error \in ChainErrors : ToolsFail(error)
    \/ PumpsIdle /\ FirstCallReturns
    \/ PumpsIdle /\ \E error \in ChainErrors : FirstCallFails(error)
    \/ PumpsIdle /\ \E n \in 1..MaxChainSegments : ModelChunk(n)
    \/ PumpsIdle /\ \E n \in 1..MaxChainSegments : ModelError(n)
    \/ PumpsIdle /\ \E n \in 1..MaxChainSegments : ModelErrorEnd(n)
    \/ PumpsIdle /\ \E n \in 1..MaxChainSegments, reason \in FinishReasons,
                       report \in StreamReports : OnFinishFinal(n, reason, report)
    \/ PumpsIdle /\ \E n \in 1..MaxChainSegments : OnFinishReturn(n)
    \/ PumpsIdle /\ \E n \in 1..MaxChainSegments, report \in StreamReports :
                       OnFinishLength(n, report, MaxChainSegments)
    \/ PumpsIdle /\ \E n \in 1..MaxChainSegments : ContinuationReturns(n)
    \/ PumpsIdle /\ \E n \in 1..MaxChainSegments, error \in ChainErrors :
                       ContinuationFails(n, error)
    \/ \E n \in 1..MaxChainSegments : PumpPart(n)
    \/ \E n \in 1..MaxChainSegments : PumpError(n)
    \/ PumpsIdle /\ LoopEnd
    \/ PumpsIdle /\ Close

SpecChain == InitStream /\ [][NextChain]_vars

(***************************************************************************)
(* The same requests, explored up to MaxSegments calls, with the timer of  *)
(* the stall monitor: its timeout may elapse whenever the monitor is       *)
(* watching.                                                               *)
(***************************************************************************)
NextMonitor ==
    \/ PumpsIdle /\ ExecuteStart
    \/ PumpsIdle /\ ToolsDone
    \/ PumpsIdle /\ \E error \in ChainErrors : ToolsFail(error)
    \/ PumpsIdle /\ FirstCallReturns
    \/ PumpsIdle /\ \E error \in ChainErrors : FirstCallFails(error)
    \/ PumpsIdle /\ \E n \in 1..MaxSegments : ModelChunk(n)
    \/ PumpsIdle /\ \E n \in 1..MaxSegments : ModelError(n)
    \/ PumpsIdle /\ \E n \in 1..MaxSegments : ModelErrorEnd(n)
    \/ PumpsIdle /\ \E n \in 1..MaxSegments, reason \in FinishReasons,
                       report \in StreamReports : OnFinishFinal(n, reason, report)
    \/ PumpsIdle /\ \E n \in 1..MaxSegments : OnFinishReturn(n)
    \/ PumpsIdle /\ \E n \in 1..MaxSegments, report \in StreamReports :
                       OnFinishLength(n, report, MaxSegments)
    \/ PumpsIdle /\ \E n \in 1..MaxSegments : ContinuationReturns(n)
    \/ PumpsIdle /\ \E n \in 1..MaxSegments, error \in ChainErrors :
                       ContinuationFails(n, error)
    \/ \E n \in 1..MaxSegments : PumpPart(n)
    \/ \E n \in 1..MaxSegments : PumpError(n)
    \/ PumpsIdle /\ LoopEnd
    \/ PumpsIdle /\ Close
    \/ PumpsIdle /\ MonitorTimeout

SpecMonitor == InitStream /\ [][NextMonitor]_vars

(***************************************************************************)
(* A second chat request, handled by the same process while the first one  *)
(* is: the handler's steps for it, reduced to those that touch the usage   *)
(* totals and the progress counter.  began records where the first request *)
(* was when the second one arrived.                                        *)
(***************************************************************************)
InitTools == InitStream /\ files = {} /\ Len(messages) = 1

firstVars == <<reqVars, progressCounter, cumulativeUsage, switches, monitor,
               segs, out, closed, reported>>

cacheVars == <<cachedProviders, cachedDefaultProvider, llmManager, loaded>>

pathVars == <<filePath, result>>

OtherReports ==
    { <<[inputTokens |-> <<3>>, outputTokens |-> <<5>>, totalTokens |-> <<8>>]>> }

OtherReceivedSharingCounters ==
    /\ other.pc = "none"
    /\ other' = [other EXCEPT !.pc = "received", !.began = pc,
                              !.cumulativeUsage = cumulativeUsage,
                              !.progressCounter = progressCounter]
    /\ UNCHANGED <<firstVars, cacheVars, pathVars, client>>

\* 76-81: the locals of one invocation of chatAction
OtherReceived ==
    /\ other.pc = "none"
    /\ other' = [other EXCEPT
                    !.pc = "received", !.began = pc,
                    !.cumulativeUsage = [completionTokens |-> 0, promptTokens |-> 0,
                                         totalTokens |-> 0],
                    !.progressCounter = 1]
    /\ UNCHANGED <<firstVars, cacheVars, pathVars, client>>

\* 405-416: the response phase starts
OtherStartGeneration ==
    /\ other.pc = "received"
    /\ other' = [other EXCEPT
                    !.pc = "streaming", !.segments = 1,
                    !.out = Write(@, Progress("response", "in-progress",
                                              other.progressCounter)),
                    !.progressCounter = @ + 1]
    /\ UNCHANGED <<firstVars, cacheVars, pathVars, client>>

\* 301-325, 355-401: a segment ends with 'length' and is continued
OtherContinue(report) ==
    /\ other.pc = "streaming"
    /\ other.segments < MaxSegments
    /\ other' = [other EXCEPT
                    !.segments = @ + 1,
                    !.cumulativeUsage = AddUsage(@, report),
                    !.reported = AddReported(@, report)]
    /\ UNCHANGED <<firstVars, cacheVars, pathVars, client>>

\* 301-353: the last segment ends
OtherFinish(report) ==
    /\ other.pc = "streaming"
    /\ LET cum == AddUsage(other.cumulativeUsage, report)
       IN  other' = [other EXCEPT
                       !.pc = "done",
                       !.cumulativeUsage = cum,
                       !.reported = AddReported(@, report),
                       !.out = Write(Write(@, UsageEvent(cum)),
                                     Progress("response", "complete",
                                              other.progressCounter)),
                       !.progressCounter = @ + 1]
    /\ UNCHANGED <<firstVars, cacheVars, pathVars, client>>

\* 113-122, 455-488: the second request's execute fails and the error is
\* written to its stream
OtherFails(error) ==
    /\ other.pc = "received"
    /\ other' = [other EXCEPT
                    !.pc = "failed",
                    !.out = Write(@, ErrorEvent("processToolInvocations", error))]
    /\ UNCHANGED <<firstVars, cacheVars, pathVars, client>>

\* errors that carry a message only
MessageErrors ==
    {ErrorOf(message) : message \in
        {m \in SUBSET Fragments : Cardinality(m) <= MaxFragments}}

\* two requests that both fail in the stream
NextTwoErrors ==
    \/ ExecuteStart
    \/ \E error \in MessageErrors : ToolsFail(error)
    \/ Close
    \/ OtherReceived
    \/ \E error \in MessageErrors : OtherFails(error)

SpecTwoErrors == InitTools /\ [][NextTwoErrors]_vars

NextTwo ==
    \/ PumpsIdle /\ ExecuteStart
    \/ PumpsIdle /\ ToolsDone
    \/ PumpsIdle /\ FirstCallReturns
    \/ PumpsIdle /\ \E n \in 1..MaxSegments : ModelChunk(n)
    \/ PumpsIdle /\ \E n \in 1..MaxSegments, report \in StreamReports :
                       OnFinishFinal(n, "stop", report)
    \/ PumpsIdle /\ \E n \in 1..MaxSegments : OnFinishReturn(n)
    \/ PumpsIdle /\ \E n \in 1..MaxSegments, report \in StreamReports :
                       OnFinishLength(n, report, MaxSegments)
    \/ PumpsIdle /\ \E n \in 1..MaxSegments : ContinuationReturns(n)
    \/ \E n \in 1..MaxSegments : PumpPart(n)
    \/ PumpsIdle /\ LoopEnd
    \/ PumpsIdle /\ Close
    \/ PumpsIdle /\ OtherReceived
    \/ PumpsIdle /\ OtherStartGeneration
    \/ PumpsIdle /\ \E report \in OtherReports : OtherContinue(report)
    \/ PumpsIdle /\ \E report \in OtherReports : OtherFinish(report)

SpecTwo == InitTools /\ [][NextTwo]_vars

(***************************************************************************)
(* One request whose sub-calls report p prompt and c completion tokens in  *)
(* either shape of the usage object, without a total; a field of the other *)
(* shape may be present without a value.                                   *)
(***************************************************************************)
ShapesOf(p, c) ==
    { [promptTokens |-> <<p>>, completionTokens |-> <<c>>],
      [inputTokens |-> <<p>>, outputTokens |-> <<c>>],
      [promptTokens |-> <<p>>, completionTokens |-> <<c>>,
       inputTokens |-> <<>>, outputTokens |-> <<>>],
      [inputTokens |-> <<p>>, outputTokens |-> <<c>>,
       promptTokens |-> <<>>, completionTokens |-> <<>>] }

ShapeReports ==
    { <<u>> : u \in UNION { ShapesOf(p, c) : p \in 0..MaxTokens, c \in 0..MaxTokens } }

NextUsage ==
    \/ PumpsIdle /\ ExecuteStart
    \/ PumpsIdle /\ ToolsDone
    \/ PumpsIdle /\ FirstCallReturns
    \/ PumpsIdle /\ \E n \in 1..MaxSegments : ModelChunk(n)
    \/ PumpsIdle /\ \E n \in 1..MaxSegments, report \in ShapeReports :
                       OnFinishFinal(n, "stop", report)
    \/ PumpsIdle /\ \E n \in 1..MaxSegments : OnFinishReturn(n)
    \/ PumpsIdle /\ \E n \in 1..MaxSegments, report \in ShapeReports :
                       OnFinishLength(n, report, MaxSegments)
    \/ PumpsIdle /\ \E n \in 1..MaxSegments : ContinuationReturns(n)
    \/ \E n \in 1..MaxSegments : PumpPart(n)
    \/ PumpsIdle /\ LoopEnd
    \/ PumpsIdle /\ Close

SpecUsage == InitTools /\ [][NextUsage]_vars

(***************************************************************************)
(* extractRelativePath, called as in src/app/utils/diff.spec.ts.  A path   *)
(* is the sequence of its names and separators.                            *)
(***************************************************************************)
PathTokens == {"/", "home", "project", "index.js"}

RelativePaths == UNION { [1..k -> PathTokens] : k \in 1..MaxPathLen }

FilePaths == RelativePaths \cup {WORK_DIR \o <<"/">> \o p : p \in RelativePaths}

StartsWith(path, prefix) ==
    Len(path) >= Len(prefix) /\ SubSeq(path, 1, Len(prefix)) = prefix

ExtractRelativePathKeepingSeparator(path) ==
    IF StartsWith(path, WORK_DIR)
    THEN SubSeq(path, Len(WORK_DIR) + 1, Len(path))
    ELSE path

\* the work directory and the separator after it are taken off the front
ExtractRelativePath(path) ==
    IF StartsWith(path, WORK_DIR \o <<"/">>)
    THEN SubSeq(path, Len(WORK_DIR) + 2, Len(path))
    ELSE path

\* diff.spec.ts:7-8
Extract(path) ==
    /\ filePath' = <<path>>
    /\ result' = <<ExtractRelativePath(path)>>
    /\ UNCHANGED <<firstVars, other, cacheVars, client>>

NextPaths == \E path \in FilePaths : Extract(path)

SpecPaths == InitTools /\ [][NextPaths]_vars

(***************************************************************************)
(* The chat component of the browser, src/unnamed/part_003.  An error      *)
(* handed to handleError has a message that is plain text (json FALSE,     *)
(* words the fragments it is made of, none for no message) or the JSON     *)
(* body of an error response (json TRUE, with the fields error, message    *)
(* and statusCode it carries, <<>> for an absent one).                     *)
(***************************************************************************)
ClientWords == {"API key", "Rate limit", "quota", "something else"}

WordSets == {w \in SUBSET ClientWords : Cardinality(w) <= MaxFragments}

ClientErrors ==
    [json : {FALSE}, words : WordSets]
    \cup [json : {TRUE}, error : BOOLEAN,
          message : {<<>>} \cup {<<w>> : w \in WordSets},
          statusCode : {<<>>, <<400>>, <<401>>, <<429>>, <<503>>}]

\* toLowerCase
ToLowerCase(word) ==
    CASE word = "API key" -> "api key"
      [] word = "Rate limit" -> "rate limit"
      [] OTHER -> word

\* message.toLowerCase().includes(sub)
LowerIncludes(message, sub) == \E word \in message : ToLowerCase(word) = sub

\* 330-351: errorInfo after the message was parsed
ErrorInfo(error) ==
    LET errorInfo == [message |-> {"An unexpected error occurred"}, statusCode |-> 500]
    IN  IF ~error.json
        THEN IF error.words = {} THEN errorInfo
             ELSE [errorInfo EXCEPT !.message = error.words]
        ELSE IF error.error \/ (error.message # <<>> /\ error.message[1] # {})
        THEN [message |-> IF error.message # <<>> THEN error.message[1]
                          ELSE errorInfo.message,
              statusCode |-> IF error.statusCode # <<>> THEN error.statusCode[1]
                             ELSE errorInfo.statusCode]
        ELSE [errorInfo EXCEPT !.message = {"{...}"}]

LlmErrorAlertNetworkFirst(errorInfo) ==
    LET typed(errorType, title) ==
            [type |-> "error", title |-> title, description |-> errorInfo.message,
             errorType |-> errorType, statusCode |-> errorInfo.statusCode]
    IN  IF errorInfo.statusCode >= 500
        THEN typed("network", "Server Error")
        ELSE IF errorInfo.statusCode = 401 \/ LowerIncludes(errorInfo.message, "api key")
        THEN typed("authentication", "Authentication Error")
        ELSE IF errorInfo.statusCode = 429 \/ LowerIncludes(errorInfo.message, "rate limit")
        THEN typed("rate_limit", "Rate Limit Exceeded")
        ELSE IF LowerIncludes(errorInfo.message, "quota")
        THEN typed("quota", "Quota Exceeded")
        ELSE typed("unknown", "Request Failed")

\* 353-387: the alert for errorInfo (statusCode records errorInfo's)
LlmErrorAlert(errorInfo) ==
    LET typed(errorType, title) ==
            [type |-> "error", title |-> title, description |-> errorInfo.message,
             errorType |-> errorType, statusCode |-> errorInfo.statusCode]
    IN  IF errorInfo.statusCode = 401 \/ LowerIncludes(errorInfo.message, "api key")
        THEN typed("authentication", "Authentication Error")
        ELSE IF errorInfo.statusCode = 429 \/ LowerIncludes(errorInfo.message, "rate limit")
        THEN typed("rate_limit", "Rate Limit Exceeded")
        ELSE IF LowerIncludes(errorInfo.message, "quota")
        THEN typed("quota", "Quota Exceeded")
        ELSE IF errorInfo.statusCode >= 500
        THEN typed("network", "Server Error")
        ELSE typed("unknown", "Request Failed")

serverVars == <<firstVars, other, cacheVars, pathVars>>

\* useChat's stop: the request in flight is aborted
StopChat(c) ==
    [c EXCEPT !.stops = @ + 1,
              !.status = IF @ \in {"submitted", "streaming"} THEN "ready" ELSE @]

\* 310-321
Abort(c) == [StopChat(c) EXCEPT !.aborted = TRUE, !.actionsAborted = TRUE]

Texts == {"", " ", "hi"}

\* String.prototype.trim
Trim(text) == IF text = " " THEN "" ELSE text

\* the user edits the prompt
TypeInput(text) ==
    /\ text # client.input
    /\ client' = [client EXCEPT !.input = text]
    /\ UNCHANGED serverVars

SendMessageWhileLoading(messageInput) ==
    /\ client.calls < MaxCalls
    /\ LET messageContent == IF messageInput # <<>> /\ messageInput[1] # ""
                             THEN messageInput[1] ELSE client.input
           called == [client EXCEPT !.calls = @ + 1, !.last = messageContent]
       IN  client' =
               IF Trim(messageContent) = "" THEN called
               ELSE [called EXCEPT
                        !.messages = Append(@, messageContent),
                        !.sent = @ + 1,
                        !.status = "submitted",
                        !.aborted = FALSE,
                        !.input = ""]
    /\ UNCHANGED serverVars

\* 451-597 (with a chat that has started or no starter template)
SendMessage(messageInput) ==
    /\ client.calls < MaxCalls
    /\ LET messageContent == IF messageInput # <<>> /\ messageInput[1] # ""
                             THEN messageInput[1] ELSE client.input
           called == [client EXCEPT !.calls = @ + 1, !.last = messageContent]
       IN  client' =
               IF Trim(messageContent) = "" THEN called
               ELSE IF client.status \in {"submitted", "streaming"} THEN Abort(called)
               ELSE [called EXCEPT
                        !.messages = Append(@, messageContent),
                        !.sent = @ + 1,
                        !.status = "submitted",
                        !.aborted = FALSE,
                        !.input = ""]
    /\ UNCHANGED serverVars

\* the response starts to arrive
StreamStarts ==
    /\ client.status = "submitted"
    /\ client' = [client EXCEPT !.status = "streaming",
                                !.messages = Append(@, "reply")]
    /\ UNCHANGED serverVars

\* 218-242: the response has arrived
StreamFinishes ==
    /\ client.status = "streaming"
    /\ client' = [client EXCEPT !.status = "ready"]
    /\ UNCHANGED serverVars

\* 214-217, 323-389: the request fails and handleError raises the alert
StreamFails(error) ==
    /\ client.status \in {"submitted", "streaming"}
    /\ client' = [StopChat([client EXCEPT !.status = "error"]) EXCEPT
                     !.error = <<error>>,
                     !.llmErrorAlert = <<LlmErrorAlert(ErrorInfo(error))>>]
    /\ UNCHANGED serverVars

NextClient ==
    \/ \E text \in Texts : TypeInput(text)
    \/ \E messageInput \in {<<>>} \cup {<<text>> : text \in Texts} :
           SendMessage(messageInput)
    \/ StreamStarts
    \/ StreamFinishes
    \/ \E error \in ClientErrors : StreamFails(error)

SpecClient == InitTools /\ [][NextClient]_vars

(***************************************************************************)
(* The models loader, src/unnamed/part_000.  cachedProviders and           *)
(* cachedDefaultProvider are <<>> for null and <<v>> once set; loaded      *)
(* holds one record per loader request, with what it computed from the     *)
(* manager (computed) and what its response carries.                       *)
(***************************************************************************)
ManagerStates ==
    { [providers |-> {"OpenAI"}, default |-> "OpenAI"],
      [providers |-> {"OpenAI", "Ollama"}, default |-> "OpenAI"],
      [providers |-> {"OpenAI", "Ollama"}, default |-> "Ollama"] }

LoaderParams == {<<>>, <<"Ollama">>}

Cookies == {"", "apiKeys"}

GetProviderInfoUncached(cp, cd, manager) ==
    [cachedProviders |-> <<manager.providers>>,
     cachedDefaultProvider |-> <<manager.default>>,
     computed |-> {"providers", "defaultProvider"}]

\* 16-39
GetProviderInfo(cp, cd, manager) ==
    [cachedProviders |-> IF cp = <<>> THEN <<manager.providers>> ELSE cp,
     cachedDefaultProvider |-> IF cd = <<>> THEN <<manager.default>> ELSE cd,
     computed |-> (IF cp = <<>> THEN {"providers"} ELSE {})
                  \cup (IF cd = <<>> THEN {"defaultProvider"} ELSE {})]

\* 59-79: the models of one provider, or of all of them
ModelList(manager, param, cookie) ==
    IF param # <<>>
    THEN IF param[1] \in manager.providers THEN {<<param[1], cookie>>} ELSE {}
    ELSE {<<provider, cookie>> : provider \in manager.providers}

\* the providers are registered or the default changes after start-up
ManagerChanges(manager) ==
    /\ manager # llmManager
    /\ llmManager' = manager
    /\ UNCHANGED <<firstVars, other, pathVars, client, cachedProviders,
                   cachedDefaultProvider, loaded>>

\* 50-66/74: a loader request up to its await
LoaderStart(param, cookie) ==
    /\ Len(loaded) < MaxLoads
    /\ LET info == GetProviderInfo(cachedProviders, cachedDefaultProvider, llmManager)
       IN  /\ cachedProviders' = info.cachedProviders
           /\ cachedDefaultProvider' = info.cachedDefaultProvider
           /\ loaded' = Append(loaded,
                  [st |-> "listing", param |-> param, cookie |-> cookie,
                   computed |-> info.computed,
                   providers |-> info.cachedProviders[1],
                   defaultProvider |-> info.cachedDefaultProvider[1],
                   modelList |-> {}])
    /\ UNCHANGED <<firstVars, other, pathVars, client, llmManager>>

\* 66/74-85: the model list arrives and the response is returned
LoaderReturn(i) ==
    /\ i \in DOMAIN loaded
    /\ loaded[i].st = "listing"
    /\ loaded' = [loaded EXCEPT
                     ![i].st = "returned",
                     ![i].modelList = ModelList(llmManager, loaded[i].param,
                                                loaded[i].cookie)]
    /\ UNCHANGED <<firstVars, other, pathVars, client, llmManager, cachedProviders,
                   cachedDefaultProvider>>

NextModels ==
    \/ \E manager \in ManagerStates : ManagerChanges(manager)
    \/ \E param \in LoaderParams, cookie \in Cookies : LoaderStart(param, cookie)
    \/ \E i \in 1..MaxLoads : LoaderReturn(i)

SpecModels == InitTools /\ [][NextModels]_vars

(***************************************************************************)
(* One request with one generation segment whose step reports tool calls.  *)
(***************************************************************************)
NextTools ==
    \/ PumpsIdle /\ ExecuteStart
    \/ PumpsIdle /\ ToolsDone
    \/ PumpsIdle /\ FirstCallReturns
    \/ PumpsIdle /\ ModelChunk(1)
    \/ PumpsIdle /\ \E shapes \in ToolCallLists : StepFinish(1, ReportedCalls(shapes))
    \/ PumpsIdle /\ \E report \in StreamReports : OnFinishFinal(1, "stop", report)
    \/ PumpsIdle /\ OnFinishReturn(1)
    \/ PumpPart(1)
    \/ PumpsIdle /\ LoopEnd
    \/ PumpsIdle /\ Close

SpecTools == InitTools /\ [][NextTools]_vars

(***************************************************************************)
(* The requests that fail at their first step, before or after the stream  *)
(* is opened, with any error of up to MaxFragments fragments.              *)
(***************************************************************************)
ErrorMessages ==
    {<<>>} \cup {<<message>> : message \in
                    {m \in SUBSET Fragments : Cardinality(m) <= MaxFragments}}

AllErrors ==
    [message : ErrorMessages, statusCode : {<<>>, <<0>>, <<429>>},
     isRetryable : {<<>>, <<TRUE>>, <<FALSE>>}, provider : {<<>>, <<"OpenAI">>}]

NextErrors ==
    \/ ParseFails
    \/ \E error \in AllErrors : SetupFails(error)
    \/ ExecuteStart
    \/ \E error \in AllErrors : ToolsFail(error)
    \/ Close

SpecErrors == InitStream /\ [][NextErrors]_vars

(***************************************************************************)
(* Properties.                                                             *)
(***************************************************************************)
Continuations == IF Len(segs) = 0 THEN 0 ELSE Len(segs) - 1

\* segment n ends with reason 'length' in this step
FinishesWithLength(n) == segs[n].st = "streaming" /\ segs'[n].reason = "length"

IsProgress(e) == e.type = "progress"

ProgressEvents == SelectSeq(out, IsProgress)

IsResponse(e, status) ==
    e.type = "progress" /\ e.label = "response" /\ e.status = status

Positions(status) == {i \in DOMAIN out : IsResponse(out[i], status)}

UsagePositions == {i \in DOMAIN out : out[i].type = "usage"}

\* the segments whose onFinish ran with a reason other than 'length'
FinalSegments == {n \in DOMAIN segs : segs[n].reason \notin {"", "length"}}

\* C1: every segment that finishes with reason 'length' while the budget is
\* not exhausted issues exactly one continuation call, whose message list is
\* the processed conversation followed by exactly two messages: an assistant
\* message holding that segment's text, then a user message holding the
\* continuation directive; and a call after the first is issued only so.
ContinuationCorrect ==
    [][ /\ \A n \in DOMAIN segs :
              (FinishesWithLength(n) /\ ~BudgetExhausted) =>
                  LET core == ConvertToCoreMessages(processedMessages)
                      call == segs'[Len(segs')].msgs
                  IN  /\ Len(segs') = Len(segs) + 1
                      /\ Len(call) = Len(core) + 2
                      /\ SubSeq(call, 1, Len(core)) = core
                      /\ call[Len(core) + 1].role = "assistant"
                      /\ call[Len(core) + 1].content
                             = [k \in 1..segs[n].produced |-> ChunkToken(n, k)]
                      /\ call[Len(core) + 2].role = "user"
                      /\ \E i \in DOMAIN call[Len(core) + 2].content :
                             call[Len(core) + 2].content[i] = Token("text", CONTINUE_PROMPT)
        /\ (Len(segs) >= 1 /\ Len(segs') > Len(segs)) =>
               /\ Len(segs') = Len(segs) + 1
               /\ \E n \in DOMAIN segs : FinishesWithLength(n) ]_vars

ContinuationIssued ==
    /\ Len(segs) >= 3
    /\ segs[1].produced >= 1
    /\ segs[2].st = "done"

\* C2: once the switch counter (one per continuation issued) has reached
\* MAX_RESPONSE_SEGMENTS, a further segment finishing with reason 'length'
\* raises the maximum-segments error and no further model call is issued.
BudgetEnforced ==
    [][ \A n \in DOMAIN segs :
            (Continuations >= MAX_RESPONSE_SEGMENTS /\ FinishesWithLength(n)) =>
                (segs'[n].st = "failed" /\ Len(segs') = Len(segs)) ]_vars

\* C3: at most MAX_RESPONSE_SEGMENTS continuation calls are issued for a
\* request, also when the model ends every segment with reason 'length'.
ContinuationsBounded == Continuations <= MAX_RESPONSE_SEGMENTS

\* C4: stream.switches increases by one for each continuation issued: after
\* k continuation calls its value is k.
SwitchesCountContinuations == switches = Continuations

\* C5: continuation calls never overlap: when the call for continuation N+1
\* has been issued, onFinish of every earlier segment has fired, so at most
\* one generation segment of the request is in flight.
NoOverlap ==
    /\ \A n \in DOMAIN segs :
           n < Len(segs) => segs[n].st \in {"finishing", "done", "failed"}
                            /\ segs[n].reason = "length"
    /\ Cardinality({n \in DOMAIN segs : segs[n].st \in {"called", "streaming"}}) <= 1

ContinuationStreaming ==
    /\ Len(segs) = 2
    /\ segs[2].st = "streaming"
    /\ segs[2].produced >= 1
    /\ segs[1].delivered < Parts(segs[1])

\* C6: on the client-facing stream no content of segment N+1 is emitted
\* before all content of segment N has been emitted: the stream of a
\* continuation is merged only after every part of the previous merged
\* stream has been delivered.
SegmentsSpliced ==
    /\ \A n \in DOMAIN segs :
           (n + 1 \in DOMAIN segs /\ segs[n + 1].pump # "none") =>
               segs[n].delivered = Parts(segs[n])
    /\ \A i \in DOMAIN out :
           out[i].type = "chunk" =>
               \A n \in DOMAIN segs :
                   n < out[i].seg => segs[n].delivered = Parts(segs[n])

\* C7: the order values of the progress events written to the client form
\* the sequence 1, 2, 3, ... in emission order.
ProgressOrdered == \A i \in DOMAIN ProgressEvents : ProgressEvents[i].order = i

ProgressAllPhases ==
    /\ Len(ProgressEvents) = 6
    /\ Len(segs) = 2

\* C8: the usage event emitted at the end of a response equals the sum over
\* all sub-calls of the request of what each reported: prompt tokens,
\* completion tokens, and the reported total if present, else prompt plus
\* completion.
UsageAdditive ==
    \A i \in UsagePositions :
        /\ out[i].promptTokens = reported.promptTokens
        /\ out[i].completionTokens = reported.completionTokens
        /\ out[i].totalTokens = reported.totalTokens

\* C9: a response that finishes emits exactly one usage event carrying the
\* cumulative totals, immediately followed by the response complete event,
\* and no progress or usage event after it; a segment that ends with reason
\* 'length' emits no usage event.
UsageThenComplete ==
    /\ Cardinality(UsagePositions) = Cardinality(FinalSegments)
    /\ Cardinality(UsagePositions) <= 1
    /\ \A i \in UsagePositions :
           /\ out[i] = UsageEvent(cumulativeUsage)
           /\ i + 1 \in DOMAIN out
           /\ IsResponse(out[i + 1], "complete")
           /\ \A j \in DOMAIN out :
                  j > i + 1 => out[j].type \notin {"progress", "usage"}

FinishedAfterContinuation ==
    /\ Len(segs) = 2
    /\ segs[2].st = "done"
    /\ UsagePositions # {}
    /\ Len(out) > Len(ProgressEvents) + 1

\* C10 as stated: every request whose stream is opened emits exactly one
\* response in-progress event (here: has emitted it when the stream closes).
ResponseInProgressAlways == closed => Cardinality(Positions("in-progress")) = 1

\* C10 as amended: a request emits the response in-progress event exactly
\* once if it reaches the generation step, with the first model call, and
\* never otherwise; a response that finishes emits exactly one response
\* complete event, after the in-progress one, whatever the number of
\* continuations; without context optimization no summary or context event
\* is emitted and the pair has the orders 1 and 2.
ResponsePair ==
    /\ Cardinality(Positions("in-progress")) = (IF Len(segs) >= 1 THEN 1 ELSE 0)
    /\ Cardinality(Positions("complete")) = Cardinality(FinalSegments)
    /\ Cardinality(Positions("complete")) <= 1
    /\ \A i \in Positions("in-progress") :
           /\ \A j \in Positions("complete") : i < j
           /\ \A j \in DOMAIN out : out[j].type \in {"chunk", "usage"} => i < j
    /\ (files = {} \/ ~contextOptimization) =>
           /\ \A i \in DOMAIN out :
                  out[i].type = "progress" => out[i].label = "response"
           /\ \A i \in Positions("in-progress") : out[i].order = 1
           /\ \A i \in Positions("complete") : out[i].order = 2

ResponsePairNoFiles ==
    /\ files = {}
    /\ Len(segs) = 2
    /\ Positions("complete") # {}
    /\ closed

\* the events other than content: progress, chatSummary, codeContext
IsSetupEvent(e) == e.type \in {"progress", "chatSummary", "codeContext"}

SetupEvents == SelectSeq(out, IsSetupEvent)

HasProgress(label, status) ==
    \E i \in DOMAIN out :
        out[i].type = "progress" /\ out[i].label = label /\ out[i].status = status

\* C11: when contextOptimization is false or the file set is empty, no
\* summary or context progress event, no chatSummary and no codeContext
\* event is emitted, no summary or selection sub-call is made, and the first
\* model call receives the whole processed message list, no summary and no
\* reduced file map.
OptimizationSkipped ==
    (files = {} \/ ~contextOptimization) =>
        /\ \A i \in DOMAIN out :
               /\ out[i].type \notin {"chatSummary", "codeContext"}
               /\ out[i].type = "progress" =>
                      out[i].label \notin {"summary", "context"}
        /\ pc \notin {"summary", "select"}
        /\ segs # <<>> =>
               /\ Len(segs[1].msgs) = Len(messages)
               /\ segs[1].msgs = ConvertToCoreMessages(processedMessages)
               /\ segs[1].summary = ""
               /\ segs[1].contextFiles = {}

SkippedWithFlagOn ==
    /\ contextOptimization
    /\ files = {}
    /\ Len(messages) > 1
    /\ segs # <<>>
    /\ segs[1].st = "done"

\* C12: when context optimization runs and both sub-calls succeed, the
\* events before the first model call are, in this order: summary
\* in-progress, summary complete, chatSummary, context in-progress,
\* codeContext with the selected paths, context complete, response
\* in-progress; the selection sub-call starts after the summary sub-call
\* has completed.
OptimizationOrdered ==
    /\ pc = "summary" => Len(SetupEvents) = 1
    /\ pc = "select" =>
           /\ Len(SetupEvents) = 4
           /\ SetupEvents[2] = Progress("summary", "complete", 2)
           /\ summary # ""
    /\ (files # {} /\ contextOptimization /\ segs # <<>>) =>
           /\ Len(SetupEvents) >= 7
           /\ SetupEvents[1] = Progress("summary", "in-progress", 1)
           /\ SetupEvents[2] = Progress("summary", "complete", 2)
           /\ SetupEvents[3].type = "chatSummary"
           /\ SetupEvents[3].summary = segs[1].summary
           /\ SetupEvents[4] = Progress("context", "in-progress", 3)
           /\ SetupEvents[5].type = "codeContext"
           /\ Cardinality(SetupEvents[5].files) = Cardinality(segs[1].contextFiles)
           /\ \A path \in segs[1].contextFiles :
                  \E rel \in SetupEvents[5].files : WORK_DIR \o rel = path
           /\ SetupEvents[6] = Progress("context", "complete", 4)
           /\ SetupEvents[7] = Progress("response", "in-progress", 5)
           /\ segs[1].st = "called" => out = SubSeq(SetupEvents, 1, 7)

OptimizationDone ==
    /\ files # {}
    /\ contextOptimization
    /\ segs # <<>>
    /\ Cardinality(segs[1].contextFiles) = 1
    /\ closed

\* C13: when the summary or the selection sub-call fails the request
\* fails: no generation call is issued, no complete event of the failed
\* phase and no response event is emitted, the client receives an in-band
\* error as the last event, and a request that started the optimization
\* reaches the generation only with both phases complete.
OptimizationFailureFatal ==
    /\ \A i \in DOMAIN out :
           (out[i].type = "error" /\ out[i].from \in {"createSummary", "selectContext"}) =>
               /\ segs = <<>>
               /\ pc = "failed"
               /\ i = Len(out)
               /\ ~HasProgress("response", "in-progress")
               /\ ~HasProgress("response", "complete")
               /\ ~HasProgress("context", "complete")
               /\ out[i].from = "createSummary" => ~HasProgress("summary", "complete")
    /\ (pc = "failed" /\ segs = <<>>) => (out # <<>> /\ out[Len(out)].type = "error")
    /\ (HasProgress("summary", "in-progress") /\ segs # <<>>) =>
           (HasProgress("summary", "complete") /\ HasProgress("context", "complete"))

SelectionFailed ==
    /\ closed
    /\ HasProgress("summary", "complete")
    /\ \E i \in DOMAIN out : out[i].type = "error" /\ out[i].from = "selectContext"

\* the parts the fullStream loops of the request have received
PartsReceived ==
    Cardinality({nk \in (DOMAIN segs) \X (1..(MaxChunks + 1)) :
                    nk[2] <= Parts(segs[nk[1]])})

\* C14: on every exit path of a request the monitor's stop() is called:
\* when the client stream is closed and no fullStream loop of the request
\* is running any more, the monitor is stopped.
MonitorStoppedAtEnd ==
    (closed /\ \A n \in DOMAIN segs : segs[n].loop # "running") =>
        monitor.st = "stopped"

\* C15: every part received from a generation segment, continuation
\* segments included, triggers one call of updateActivity().
ActivityPerChunk == monitor.updates = PartsReceived

\* C16: the monitor is not stopped while the response is not terminal:
\* while a generation call is awaited or a segment streams without error,
\* the monitor's state is not stopped.
MonitorObservesResponse ==
    (\E n \in DOMAIN segs : segs[n].st \in {"called", "streaming"} /\ ~segs[n].errPart) =>
        monitor.st # "stopped"

\* C17: the monitor moves idle -> monitoring -> active -> stalled ->
\* stopped: it becomes stalled only from a watching state, by the timeout,
\* invoking onTimeout exactly once, and onTimeout is invoked in no other
\* step; stop() leads to stopped from any state, and a stopped monitor
\* stays stopped and invokes onTimeout no more.
MonitorTransitions ==
    {<<"idle", "monitoring">>, <<"monitoring", "active">>,
     <<"monitoring", "stalled">>, <<"active", "stalled">>,
     <<"stalled", "active">>, <<"idle", "stopped">>,
     <<"monitoring", "stopped">>, <<"active", "stopped">>,
     <<"stalled", "stopped">>}

MonitorStateMachine ==
    [][ /\ monitor'.st # monitor.st => <<monitor.st, monitor'.st>> \in MonitorTransitions
        /\ monitor'.timeouts # monitor.timeouts =>
               /\ monitor.st \in {"monitoring", "active"}
               /\ monitor'.st = "stalled"
               /\ monitor'.timeouts = monitor.timeouts + 1
        /\ (monitor'.st = "stalled" /\ monitor.st # "stalled") =>
               monitor'.timeouts = monitor.timeouts + 1
        /\ monitor.st = "stopped" =>
               (monitor'.st = "stopped" /\ monitor'.timeouts = monitor.timeouts) ]_vars

StalledThenStopped ==
    /\ monitor.st = "stopped"
    /\ monitor.timeouts >= 1
    /\ monitor.updates >= 1

\* the in-band errors written by the UI message stream
ClassifiedErrors == {i \in DOMAIN out : out[i].type = "error" /\ out[i].seg = 0}

\* C18: an in-stream error whose message contains "rate limit" is given
\* the rate-limit message, whatever else the message contains.
RateLimitAlwaysClassified ==
    \A i \in ClassifiedErrors :
        (out[i].cause # <<>> /\ "rate limit" \in out[i].cause[1]) =>
            out[i].errorText = [text |-> RateLimitText, raw |-> {}]

\* C19: once the stream is opened the response is the 200 stream response
\* whatever happens afterwards; an error raised inside the stream's
\* execution shows as an in-band error with a message of the classifier,
\* and the pre-stream handler answers only requests whose stream never
\* opened.
ClassifierTexts ==
    {InvalidModelText, InvalidResponseText, AuthenticationText, TokenLimitText,
     RateLimitText, NetworkText, "Custom error: "}

StreamStatusFixed ==
    /\ pc \notin {"received", "rejected", "crashed"} =>
           (response # <<>> /\ response[1].status = 200
            /\ response[1].body = [stream |-> TRUE])
    /\ pc = "rejected" =>
           (response[1].status # 200 /\ out = <<>> /\ monitor.st = "idle"
            /\ segs = <<>>)
    /\ pc = "failed" => ClassifiedErrors # {}
    /\ \A n \in DOMAIN segs :
           (segs[n].st = "failed" /\ segs[n].pump = "done") =>
               \E i \in ClassifiedErrors : out[i].cause = segs[n].err[1].message
    /\ \A i \in ClassifiedErrors : out[i].errorText.text \in ClassifierTexts

ContinuationFailedInBand ==
    /\ closed
    /\ \E n \in DOMAIN segs : segs[n].st = "failed" /\ segs[n].delivered >= 1
    /\ response[1].status = 200

\* C20: a failure caught before the stream is opened returns 401 when the
\* error is classified as authentication and 500 in every other case, with
\* a body of the fields error, message, statusCode, isRetryable, provider.
PreStreamStatus ==
    pc = "rejected" =>
        /\ response[1].status \in {401, 500}
        /\ DOMAIN response[1].body =
               {"error", "message", "statusCode", "isRetryable", "provider"}

\* C21: every failure before the stream is opened, a request body or a
\* cookie value that does not parse included, is answered with an HTTP
\* error response holding the JSON error body; none escapes chatAction.
PreStreamFailuresCaught ==
    pc \in {"rejected", "crashed"} =>
        /\ response # <<>>
        /\ response[1].status # 200
        /\ DOMAIN response[1].body =
               {"error", "message", "statusCode", "isRetryable", "provider"}

ContinuationPinned ==
    \A n \in DOMAIN segs :
        n >= 2 =>
            LET directive == segs[n].msgs[Len(segs[n].msgs)].content
                users == {i \in DOMAIN processedMessages :
                             processedMessages[i].role = "user"}
                recent == processedMessages[CHOOSE i \in users : \A j \in users : j <= i]
                named(kind) == {directive[i].value : i \in
                                   {j \in DOMAIN directive : directive[j].kind = kind}}
            IN  /\ named("model") =
                       {IF recent.model # "" THEN recent.model ELSE DEFAULT_MODEL}
                /\ named("provider") =
                       {IF recent.provider # "" THEN recent.provider ELSE DEFAULT_PROVIDER}
                /\ directive = segs[2].msgs[Len(segs[2].msgs)].content

PinnedToLaterChoice ==
    /\ Len(segs) >= 3
    /\ Len(messages) = 3
    /\ segs[3].st = "streaming"

\* C25: processToolInvocations runs once per request, after the response
\* stream is opened and before any summary, selection or generation call,
\* and every model call of the request, each continuation included, is
\* built from that one processed list.
ToolInvocationsProcessedOnce ==
    [][/\ processedMessages' # processedMessages =>
              /\ pc = "tools" /\ pc' # "tools"
              /\ response # <<>>
              /\ summary = "" /\ filteredFiles = {} /\ segs = <<>>
              /\ ~HasProgress("summary", "in-progress")
              /\ processedMessages' = ProcessToolInvocations(messages)
       /\ pc' = "tools" => pc \in {"received", "tools"}
       /\ \A n \in DOMAIN segs' :
              LET core == ConvertToCoreMessages(processedMessages')
              IN  /\ Len(segs'[n].msgs) >= Len(core)
                  /\ SubSeq(segs'[n].msgs, 1, Len(core)) = core
                  /\ processedMessages' = ProcessToolInvocations(messages')
      ]_vars

ContinuedAfterToolResolved ==
    /\ Len(segs) >= 2
    /\ \E i \in DOMAIN messages : messages[i].tool = "pending"
    /\ summary # ""
    /\ closed

\* C26: issuing a continuation leaves the request's messages and the
\* processed message list as they were; the continuation's own list is the
\* processed list's conversion with two messages appended.
ContinuationLeavesMessages ==
    [][(Len(segs) >= 1 /\ Len(segs') > Len(segs)) =>
           /\ messages' = messages
           /\ processedMessages' = processedMessages
           /\ processedMessages = ProcessToolInvocations(messages)
           /\ Len(segs'[Len(segs')].msgs) = Len(processedMessages') + 2
      ]_vars

ContinuedTwice ==
    /\ Len(segs) >= 3
    /\ processedMessages = ProcessToolInvocations(messages)
    /\ Len(processedMessages) = 5

OrdersOf(o) ==
    LET events == SelectSeq(o, IsProgress)
    IN  [i \in DOMAIN events |-> events[i].order]

UsagesOf(o) ==
    {[promptTokens |-> o[i].promptTokens, completionTokens |-> o[i].completionTokens,
      totalTokens |-> o[i].totalTokens] : i \in {j \in DOMAIN o : o[j].type = "usage"}}

\* C27: with two chat requests handled at once, the order values each
\* client receives count from 1 over that request's own progress events and
\* the usage it receives is the sum of that request's own sub-calls.
RequestsIndependent ==
    /\ \A i \in DOMAIN OrdersOf(out) : OrdersOf(out)[i] = i
    /\ \A i \in DOMAIN OrdersOf(other.out) : OrdersOf(other.out)[i] = i
    /\ UsagesOf(out) \subseteq {reported}
    /\ UsagesOf(other.out) \subseteq {other.reported}
    /\ other.pc = "received" =>
           /\ other.progressCounter = 1
           /\ other.cumulativeUsage.totalTokens = 0
           /\ other.cumulativeUsage.promptTokens = 0
           /\ other.cumulativeUsage.completionTokens = 0

BothRequestsServed ==
    /\ other.pc = "done"
    /\ other.began = "firstCall"
    /\ other.segments = 2
    /\ closed
    /\ Len(segs) = 2
    /\ UsagesOf(out) # {}
    /\ UsagesOf(other.out) # UsagesOf(out)

\* C28: over any sequence of loader requests the provider list and the
\* default provider are each computed from the manager at most once, and
\* every request returns what the first one did, whatever its cookies and
\* parameters and whatever the manager has become.
ProviderCachePopulatedOnce ==
    /\ Cardinality({i \in DOMAIN loaded : "providers" \in loaded[i].computed}) <= 1
    /\ Cardinality({i \in DOMAIN loaded : "defaultProvider" \in loaded[i].computed}) <= 1
    /\ \A i \in DOMAIN loaded :
           /\ loaded[i].providers = loaded[1].providers
           /\ loaded[i].defaultProvider = loaded[1].defaultProvider
           /\ i > 1 => loaded[i].computed = {}
           /\ cachedProviders = <<loaded[1].providers>>
           /\ cachedDefaultProvider = <<loaded[1].defaultProvider>>

CachedAfterManagerChanged ==
    /\ Len(loaded) = MaxLoads
    /\ \A i \in DOMAIN loaded : loaded[i].st = "returned"
    /\ loaded[1].providers = {"OpenAI"}
    /\ loaded[2].modelList = {<<"Ollama", "apiKeys">>}
    /\ loaded[2].param # loaded[1].param
    /\ loaded[2].cookie # loaded[1].cookie
    /\ llmManager.default = "Ollama"

\* C29: a sub-call reporting p and c as inputTokens and outputTokens adds
\* to the cumulative usage what one reporting them as promptTokens and
\* completionTokens adds, namely p, c and p + c, also when a field of the
\* other shape is present without a value.
UsageShapesEquivalent ==
    /\ cumulativeUsage.promptTokens = reported.promptTokens
    /\ cumulativeUsage.completionTokens = reported.completionTokens
    /\ cumulativeUsage.totalTokens = reported.totalTokens

\* C30: extractRelativePath of a path WORK_DIR + '/' + p is p.
WorkDirStripped ==
    (filePath # <<>> /\ StartsWith(filePath[1], WORK_DIR \o <<"/">>)) =>
        \E p \in RelativePaths :
            /\ filePath[1] = WORK_DIR \o <<"/">> \o p
            /\ result = <<p>>

IndexJsExtracted ==
    /\ filePath = <<WORK_DIR \o <<"/", "index.js">>>>
    /\ result = << <<"index.js">> >>

\* C31: the in-stream classifier gives an error the message of the first
\* class of the taxonomy that its message matches: Authentication before
\* Invalid response, Rate limit before Token/context-limit.
ClassifierFollowsTaxonomy ==
    \A i \in ClassifiedErrors :
        (out[i].cause # <<>> /\ TaxonomyClass(out[i].cause[1]) # "Unknown") =>
            out[i].errorText = Fixed(ClassText(TaxonomyClass(out[i].cause[1])))

ErrorsOf(o) == {o[i] : i \in {j \in DOMAIN o : o[j].type = "error"}}

\* C32: two errors of the same class other than Unknown give the client the
\* same message, with nothing of the original message in it; only Unknown
\* passes the original message through.
MessageDependsOnClassOnly ==
    \A e1 \in ErrorsOf(out), e2 \in ErrorsOf(other.out) :
        LET class1 == TaxonomyClass(e1.cause[1])
            class2 == TaxonomyClass(e2.cause[1])
        IN  /\ class1 # "Unknown" => e1.errorText.raw = {}
            /\ class2 # "Unknown" => e2.errorText.raw = {}
            /\ (class1 = class2 /\ class1 # "Unknown") => e1.errorText = e2.errorText

\* what does hold: no classified error carries any of the original message
ClassifiedCarryNothing ==
    \A e \in ErrorsOf(out) \cup ErrorsOf(other.out) :
        TaxonomyClass(e.cause[1]) # "Unknown" => e.errorText.raw = {}

RECURSIVE JoinedSegments(_)
\* the output of the segments 1..n joined end to end
JoinedSegments(n) ==
    IF n = 0 THEN <<>>
    ELSE JoinedSegments(n - 1) \o SegmentText(n, segs[n].produced)

RECURSIVE AssistantOutput(_, _)
\* the assistant content of the messages of msgs after the first skip ones
AssistantOutput(msgs, skip) ==
    IF Len(msgs) <= skip THEN <<>>
    ELSE AssistantOutput(SubSeq(msgs, 1, Len(msgs) - 1), skip)
             \o (IF msgs[Len(msgs)].role = "assistant"
                 THEN msgs[Len(msgs)].content ELSE <<>>)

\* C33: the conversation sent for the k-th continuation holds, after the
\* request's own messages, the partial output of the segments 1..k in order.
ContinuationCarriesAllSegments ==
    \A n \in DOMAIN segs :
        n >= 2 =>
            AssistantOutput(segs[n].msgs, Len(processedMessages))
                = JoinedSegments(n - 1)

\* C34: when the last segment of a response finishes with reason 'error',
\* neither the 'response' complete progress event nor a usage event is
\* written for the response.
ErrorFinishNotCompleted ==
    (\E n \in DOMAIN segs : segs[n].reason = "error") =>
        /\ UsagePositions = {}
        /\ ~HasProgress("response", "complete")

\* C35: every error that the in-stream classifier answers with the
\* authentication message is answered by the pre-stream handler with status
\* 401 and isRetryable false.
HandlersAgreeOnAuthentication ==
    (pc = "rejected" /\ OnError(thrown[1]) = Fixed(AuthenticationText)) =>
        /\ response[1].status = 401
        /\ response[1].body.isRetryable = FALSE

\* C36: in every pre-stream error response the statusCode of the body is
\* the HTTP status, on the authentication path and on the default path
\* whatever statusCode the error carries.
BodyStatusIsHttpStatus ==
    pc = "rejected" =>
        /\ response[1].body.statusCode = response[1].status
        /\ response[1].status =
               IF ~NoMessage(thrown[1]) /\ Includes(thrown[1].message[1], "API key")
               THEN 401
               ELSE IF thrown[1].statusCode \in {<<>>, <<0>>} THEN 500
               ELSE thrown[1].statusCode[1]

SuppliedStatusReturned ==
    /\ pc = "rejected"
    /\ thrown[1].statusCode = <<429>>
    /\ response[1].status = 429
    /\ response[1].body.statusCode = 429

\* C37: handleError classifies in the order authentication (401 or
\* 'api key'), rate_limit (429 or 'rate limit'), quota, network (status at
\* least 500), unknown; unknown results only from a JSON payload carrying a
\* statusCode below 500 other than 401 and 429, and a plain-text error
\* without the three substrings is classified network.
HandleErrorPrecedence ==
    client.llmErrorAlert # <<>> =>
        LET alert == client.llmErrorAlert[1]
            error == client.error[1]
            has(sub) == LowerIncludes(alert.description, sub)
        IN  /\ alert.errorType =
                   IF alert.statusCode = 401 \/ has("api key") THEN "authentication"
                   ELSE IF alert.statusCode = 429 \/ has("rate limit") THEN "rate_limit"
                   ELSE IF has("quota") THEN "quota"
                   ELSE IF alert.statusCode >= 500 THEN "network"
                   ELSE "unknown"
            /\ alert.errorType = "unknown" =>
                   /\ error.json
                   /\ error.statusCode # <<>>
                   /\ error.statusCode[1] < 500
                   /\ error.statusCode[1] \notin {401, 429}
            /\ (~error.json /\ error.words \cap {"API key", "Rate limit", "quota"} = {}) =>
                   alert.errorType = "network"
            /\ ~error.json => alert.statusCode = 500

UnknownFromPayload ==
    /\ client.llmErrorAlert # <<>>
    /\ client.llmErrorAlert[1].errorType = "unknown"
    /\ client.error[1].statusCode = <<400>>

\* C38: while a response is loading a call of sendMessage sends nothing
\* and leaves the messages and the input as they are: with content it
\* stops the response, sets the aborted flag and aborts the workbench
\* actions; with empty or blank content it does nothing.
SendWhileLoadingAborts ==
    [][(client'.calls = client.calls + 1 /\ client.status \in {"submitted", "streaming"}) =>
           /\ client'.sent = client.sent
           /\ client'.messages = client.messages
           /\ client'.input = client.input
           /\ IF Trim(client'.last) = ""
              THEN client' = [client EXCEPT !.calls = @ + 1, !.last = client'.last]
              ELSE /\ client'.stops = client.stops + 1
                   /\ client'.aborted
                   /\ client'.actionsAborted
      ]_vars

AbortedBySend ==
    /\ client.calls = 2
    /\ client.sent = 1
    /\ client.aborted
    /\ client.stops = 1
    /\ client.input = "hi"
    /\ Len(client.messages) = 2

ToolEvents == {i \in DOMAIN out : out[i].type = "toolCall"}

\* C24: for every tool call reported at the end of a step processToolCall
\* is invoked exactly once, with its toolCallId and toolName; a call with
\* the arguments X under input is surfaced with the same arguments as a
\* call with X under args, and a call with neither with empty arguments.
ToolCallsSurfaced ==
    /\ \A n \in DOMAIN segs : \A k \in DOMAIN segs[n].toolCalls :
           Cardinality({i \in ToolEvents :
                           /\ out[i].seg = n
                           /\ out[i].toolCallId = segs[n].toolCalls[k].toolCallId
                           /\ out[i].toolName = segs[n].toolCalls[k].toolName}) = 1
    /\ \A i \in ToolEvents :
           /\ \E k \in DOMAIN segs[out[i].seg].toolCalls :
                  segs[out[i].seg].toolCalls[k] = out[i].call
           /\ (out[i].call.input = <<>> /\ out[i].call.args = <<>>) =>
                  out[i].args = EmptyArgs
           /\ \A j \in ToolEvents :
                  (/\ out[i].call.input # <<>> /\ out[i].call.args = <<>>
                   /\ out[j].call.args = out[i].call.input /\ out[j].call.input = <<>>) =>
                      out[i].args = out[j].args
           /\ (out[i].call.args = <<>> /\ out[i].call.input # <<>>
                   /\ Truthy(out[i].call.input[1])) =>
                  out[i].args = out[i].call.input[1]

BothShapesSurfaced ==
    \E i, j \in ToolEvents :
        /\ out[i].call.input = <<"{a:1}">> /\ out[i].call.args = <<>>
        /\ out[j].call.args = <<"{a:1}">> /\ out[j].call.input = <<>>
        /\ closed

============================================================================
